---- MODULE Spec2Model ----
(***************************************************************************)
(* Durable hierarchical job scheduler of the google-maps-scraper:          *)
(* the gmaps_jobs table, the lease loop of the provider, the job wrapper   *)
(* and the status manager with its parent rollup.                          *)
(*                                                                         *)
(* Every SQL transaction is one atomic step: each transaction of the       *)
(* status manager takes the row lock of the parent before it reads the     *)
(* counters it decides on, so under READ COMMITTED the transactions on one *)
(* parent are serialized. The lease statement is split in two steps (rows  *)
(* locked, rows flipped) so that two lease statements can overlap.         *)
(***************************************************************************)
EXTENDS Integers, Sequences, FiniteSets, TLC

\* ---------------------------------------------------------------- bounds
MaxJobs == 3        \* job ids ever created
MaxKids == 2        \* children returned by one Process call
MaxRoots == 2       \* seed jobs pushed
LeaseLimit == 2     \* stands for LIMIT 50 of the lease statement
JobcCap == 1        \* stands for the capacity (100) of provider.jobc
MaxCrashes == 1     \* process stops (crash or cancellation)

Procs == {"p1", "p2"}
SpareIds == 1       \* ids past MaxJobs, created only under AsyncSpec
Ids == 1..(MaxJobs + SpareIds)
NoJob == 0

\* ------------------------------------------------------------- constants
statusNew == "new"
statusQueued == "queued"
statusProcessing == "processing"
statusDone == "done"
statusFailed == "failed"
absent == "absent"              \* no row with this id

Variants == {"search", "place", "email", "company"}

\* ---- sibling transactions
MaxEarlier == 1     \* children of the parent processed before its last two
Txs == {1, 2}
TxKinds == {"MarkDone", "MarkFailed"}

\* ---- Jobs
MaxFetched == 3     \* jobs the lease loop decodes
MaxEmptyPolls == 8  \* consecutive polls that return no row
\* the backoff of fetchJobs, in seconds
baseDelay == 1
maxDelay == 60
factor == 2
\* ---- ParseConfig
MaxCPU == 4         \* runtime.NumCPU() ranges over 1..MaxCPU
\* a flag of the command line: not given, or given with a value
NotGiven == [given |-> FALSE, value |-> 0]
Given(v) == [given |-> TRUE, value |-> v]

\* ---- getRootParentJobID
MaxNodes == 3       \* job ids of the parent_id graph
RootIds == 1..MaxNodes
NoRow == -1         \* the SELECT finds no row (sql.ErrNoRows)

\* ---- provider
MaxRows == 3        \* rows in new when the provider starts
Rows == 1..MaxRows
MaxCalls == 2       \* calls of Jobs on one provider
Callers == 1..MaxCalls
MaxLeases == 3      \* lease statements issued
NoWrapped == [type |-> "none"]

\* how a notification call ends; skipped: the target URL is empty
Outcomes == {"success", "http failure", "timeout", "skipped"}
\* what makes fetchJobs send on p.errc and return
LeaseErrors == {"QueryContext", "rows.Scan", "DecodeJob", "rows.Err", "rows.Close"}

\* ---- result writer
MaxBatchSize == 2   \* stands for maxBatchSize = 50 of Run
MaxResults == 3     \* results sent on the channel in

Links == {"", "l1"}
UserIDs == {"", "u1", "u2"}
OrgIDs == {"", "o1"}
\* dbEntry: the columns the writer decides on
Entries == [Link : Links, UserID : UserIDs, OrganizationID : OrgIDs]
NoCalls == [u \in UserIDs |-> 0]
NoFlush == [batch |-> <<>>, ctx |-> "none", err |-> "none", calls |-> NoCalls]

VARIABLES
    status,                 \* gmaps_jobs.status by id (absent: no row)
    parent_id,              \* gmaps_jobs.parent_id (NoJob: NULL)
    child_jobs_count,
    child_jobs_completed,
    child_jobs_failed,
    created_at,             \* gmaps_jobs.created_at
    clock,                  \* time.Now() of the last insert
    ParentID,               \* scrapemate.Job.ParentID of the in-memory job
    variant,                \* Go type of the in-memory job ("none": not created)
    nextId,                 \* next fresh uuid
    locked,                 \* rows locked by the running lease statement of a process
    jobs,                   \* fetchJobs: local slice jobs
    jobc,                   \* provider.jobc
    cur,                    \* job the worker of the process is processing
    pc,                     \* position of the worker in jobWrapper.Process
    nextJobs,               \* nextJobs returned by the business Process
    async,                  \* goroutines started by pushChildJobsAsync / pushChildJobsForPlaceJob
    pendingPush,            \* wrapped next jobs returned to the framework, not yet pushed
    notified,               \* number of CallJobCompletionAPIAsync calls per job id
    leaseCount,             \* number of lease statements that returned the row
    delivered,              \* ids handed to a worker on the work channel
    orphaned,               \* ids lost in memory by a stopped process before Process recorded a result
    crashes,
    becameDone,             \* history: times the status of the row changed to done
    pushedOver,             \* status of the row a Push found under its id ("none": no such Push)
    \* ---- result writer (resultWriter.Run)
    revalidationAPIURL,     \* resultWriter.revalidationAPIURL
    results,                \* rows of the results table: number of rows per entry value
    buff,                   \* Run: local slice buff
    received,               \* results taken from the channel in
    ctxDone,                \* the context given to Run is cancelled
    rwpc,                   \* "run": in the select loop, "returned": Run returned
    rwret,                  \* value returned by Run
    lastFlush,              \* the last call of batchSave: entries, context, error, goroutines started
    finalFlushes,           \* calls of batchSave under the context of the ctx.Done() case
    \* ---- codec registry
    cjob,                   \* the job given to EncodeJob
    cenvelope,              \* the envelope: json.Marshal of the JSONJob
    cpayload,               \* gmaps_jobs.payload as stored
    cdouble,                \* the payload was stored as a JSON string
    ctype,                  \* gmaps_jobs.payload_type
    cdecoded,               \* what DecodeJob returned
    cpc,                    \* "new", "encoded", "stored", "decoded"
    ccorrupt,               \* the row was changed by another writer
    \* ---- two sibling transactions on one parent row
    parentRow,              \* the committed parent row: counters and status
    rowLock,                \* transaction holding the row lock of the parent (0: none)
    tx,                     \* per transaction: MarkDone or MarkFailed, position, decision
    transitions,            \* committed processing -> done transitions of the parent
    before,                 \* the counters before the two transactions
    \* ---- Jobs: the lease loop, the forwarder and the consumer of its channels
    perrc,                  \* provider.errc: buffered errors (capacity 1)
    perrcClosed,            \* close(p.errc) ran
    pjobc,                  \* provider.jobc as seen by the forwarder: buffered jobs
    pjobcClosed,            \* close(p.jobc) ran
    fetched,                \* jobs decoded by the lease loop so far
    tosend,                 \* fetchJobs: jobs of the local slice not yet sent
    fpc,                    \* position of fetchJobs
    sentErr,                \* the error fetchJobs sent on p.errc ("none": no error)
    fwpc,                   \* position of the forwarder goroutine of Jobs
    fwjob,                  \* the job the forwarder took from p.jobc
    errc,                   \* the error channel returned by Jobs (capacity 1)
    outc,                   \* jobs the consumer received on the channel returned by Jobs
    errSeen,                \* errors the consumer received
    jctx,                   \* the context given to Jobs is cancelled
    currentDelay,           \* fetchJobs: seconds to wait after an empty lease
    emptyPolls,             \* empty polls slept through since the last poll with rows
    \* ---- notifications
    lastOutcome,            \* how the last notification call ended
    \* ---- ParseConfig
    argv,                   \* the command line and runtime.NumCPU()
    cfg,                    \* the Config being filled
    cfgpc,                  \* "start", "parsed", "returned" or the panic message
    \* ---- getRootParentJobID
    rparent,                \* gmaps_jobs.parent_id by id (NoJob: NULL, NoRow: no such row)
    rjobID,                 \* the argument jobID
    currentJobID,
    visitedJobs,
    rootret,                \* what getRootParentJobID returned (err "running": not yet)
    \* ---- Run: from a result to its row
    resJob,                 \* result.Job: its type, wrapping, id, tenant and ParentID field
    resEntry,              \* the dbEntry built from it (built FALSE: not yet)
    \* ---- provider: the lease loop over rows and the calls of Jobs
    rowsTbl,                \* gmaps_jobs.status of the rows the provider leases from
    poisoned,               \* rows whose payload DecodeJob rejects
    started,                \* provider.started
    fetchers,               \* fetchJobs goroutines started so far
    lpc,                    \* position of fetchJobs ("idle": not started)
    rowsCur,                \* rows of the lease statement not yet scanned
    jobsSlice,              \* fetchJobs: the local slice jobs
    batch,                  \* rows the last lease statement flipped
    leases,                 \* lease statements issued
    lerr,                   \* the error fetchJobs sent on p.errc ("none": no error)
    jobcQ,                  \* p.jobc: buffered jobs
    jobcClosedQ,            \* close(p.jobc) ran
    errcQ,                  \* p.errc: buffered errors
    errcClosedQ,            \* close(p.errc) ran
    fw,                     \* per call of Jobs: position of its goroutine, job held, what its channels delivered
    pctx                    \* the context given to Jobs is cancelled

dbvars == <<status, parent_id, child_jobs_count, child_jobs_completed,
            child_jobs_failed, created_at, clock, becameDone>>
objvars == <<ParentID, variant, nextId>>
leasevars == <<locked, jobs, jobc, leaseCount>>
workervars == <<cur, pc, nextJobs>>
writervars == <<revalidationAPIURL, results, buff, received, ctxDone, rwpc,
                rwret, lastFlush, finalFlushes>>
\* the variables of the components other than the scheduler
codecvars == <<cjob, cenvelope, cpayload, cdouble, ctype, cdecoded, cpc,
               ccorrupt>>
rollupvars == <<parentRow, rowLock, tx, transitions, before>>
fwdvars == <<perrc, perrcClosed, pjobc, pjobcClosed, fetched, tosend, fpc,
             sentErr, fwpc, fwjob, errc, outc, errSeen, jctx, currentDelay,
             emptyPolls>>
notevars == <<lastOutcome>>
cfgvars == <<argv, cfg, cfgpc>>
rootvars == <<rparent, rjobID, currentJobID, visitedJobs, rootret>>
resvars == <<resJob, resEntry>>
provvars == <<rowsTbl, poisoned, started, fetchers, lpc, rowsCur, jobsSlice, batch, leases, lerr, jobcQ, jobcClosedQ, errcQ, errcClosedQ, fw, pctx>>
compvars == <<writervars, codecvars, rollupvars, fwdvars, notevars, cfgvars,
              rootvars,
    resvars,
    provvars>>
schedvars == <<dbvars, objvars, leasevars, workervars, async, pendingPush,
               notified, delivered, orphaned, crashes, pushedOver>>
notwriter == <<schedvars, codecvars, rollupvars, fwdvars,
              notevars, cfgvars, rootvars,
    resvars,
    provvars>>
notcodec == <<schedvars, writervars, rollupvars, fwdvars,
              notevars, cfgvars, rootvars,
    resvars,
    provvars>>
notrollup == <<schedvars, writervars, codecvars, fwdvars,
              notevars, cfgvars, rootvars,
    resvars,
    provvars>>
notfwd == <<schedvars, writervars, codecvars, rollupvars, notevars, cfgvars,
            rootvars,
    resvars,
    provvars>>
notnote == <<schedvars, writervars, codecvars, rollupvars, fwdvars, cfgvars,
             rootvars,
    resvars,
    provvars>>
notcfg == <<schedvars, writervars, codecvars, rollupvars, fwdvars, notevars,
            rootvars,
    resvars,
    provvars>>
notroot == <<schedvars, writervars, codecvars, rollupvars, fwdvars, notevars,
             cfgvars,
    resvars,
    provvars>>
notres == <<schedvars, writervars, codecvars, rollupvars, fwdvars, notevars, cfgvars, rootvars,
    provvars>>
notprov == <<schedvars, writervars, codecvars, rollupvars, fwdvars, notevars, cfgvars, rootvars, resvars>>
vars == <<schedvars, compvars>>

\* -------------------------------------------------------- the store view
\* The committed rows plus the notifications started so far, as one value
\* the transactions below transform.
DB == [status |-> status, parent |-> parent_id, count |-> child_jobs_count,
       completed |-> child_jobs_completed, failed |-> child_jobs_failed,
       created |-> created_at, clock |-> clock, notified |-> notified]

Commit(s) ==
    /\ status' = s.status
    /\ parent_id' = s.parent
    /\ child_jobs_count' = s.count
    /\ child_jobs_completed' = s.completed
    /\ child_jobs_failed' = s.failed
    /\ created_at' = s.created
    /\ clock' = s.clock
    /\ becameDone' = [j \in Ids |->
          IF status[j] # statusDone /\ s.status[j] = statusDone
          THEN becameDone[j] + 1 ELSE becameDone[j]]

\* mutant: the statements of a failed transaction stay
Finish_NoRollback(s, ok) ==
    /\ Commit(s)
    /\ notified' = s.notified

\* A transaction that ran to s: it commits (ok) or is rolled back; the
\* notification goroutines it started run in both cases.
Finish(s, ok) ==
    /\ IF ok THEN Commit(s) ELSE UNCHANGED dbvars
    /\ notified' = s.notified

\* scrapemate.PriorityHigh = 0, PriorityMedium = 1, PriorityLow = 2
Priority(v) ==
    CASE v = "place" -> 1
      [] v = "email" -> 0
      [] v = "company" -> 0
      [] OTHER -> 2

\* ----------------------------------------------------- status manager
\* mutant: the budget test forgets the processed total
BudgetMet_NoTotal(childCount, totalProcessed) ==
    childCount > 0

BudgetMet(childCount, totalProcessed) ==
    totalProcessed >= childCount /\ childCount > 0

RECURSIVE checkAndMarkParentDone(_, _)
checkAndMarkParentDone(s, jobID) ==
    LET p == s.parent[jobID] IN
    IF p = NoJob THEN s
    ELSE
      LET s1 == IF s.status[jobID] = statusDone
                THEN [s EXCEPT !.completed[p] = @ + 1]
                ELSE s
          totalProcessed == s1.completed[p] + s1.failed[p]
      IN IF BudgetMet(s1.count[p], totalProcessed)
         THEN LET s2 == [s1 EXCEPT !.status[p] = statusDone] IN
              IF s2.parent[p] = NoJob
              THEN [s2 EXCEPT !.notified[p] = @ + 1]
              ELSE checkAndMarkParentDone(s2, p)
         ELSE s1

\* mutant: MarkDone sets done whatever the number of children created
MarkDoneStatus_AlwaysDone(childJobsCreated) ==
    statusDone

MarkDoneStatus(childJobsCreated) ==
    IF childJobsCreated = 0 THEN statusDone ELSE statusProcessing

\* mutant: with children created, MarkDone also writes their number
MarkDone_WritesCount(s, job, childJobsCreated) ==
    LET s1 == [s EXCEPT !.status[job] = MarkDoneStatus(childJobsCreated)] IN
    IF childJobsCreated = 0
    THEN LET s2 == IF s1.parent[job] = NoJob /\ s1.count[job] = 0
                   THEN [s1 EXCEPT !.notified[job] = @ + 1]
                   ELSE s1
         IN checkAndMarkParentDone(s2, job)
    ELSE [s1 EXCEPT !.count[job] = childJobsCreated + 1]

MarkDone(s, job, childJobsCreated) ==
    LET s1 == [s EXCEPT !.status[job] = MarkDoneStatus(childJobsCreated)] IN
    IF childJobsCreated = 0
    THEN LET s2 == IF s1.parent[job] = NoJob /\ s1.count[job] = 0
                   THEN [s1 EXCEPT !.notified[job] = @ + 1]
                   ELSE s1
         IN checkAndMarkParentDone(s2, job)
    ELSE s1

\* mutant: the failed counter of the parent is left alone
incrementParentFailedCounter_None(s, jobID) ==
    s

incrementParentFailedCounter(s, jobID) ==
    LET p == s.parent[jobID] IN
    IF p = NoJob THEN s ELSE [s EXCEPT !.failed[p] = @ + 1]

\* mutant: a failed child is counted as completed too
MarkFailed_CountsCompleted(s, job) ==
    LET s1 == [s EXCEPT !.status[job] = statusFailed]
        s2 == incrementParentFailedCounter(s1, job)
        p == s.parent[job]
    IN checkAndMarkParentDone(IF p = NoJob THEN s2
                              ELSE [s2 EXCEPT !.completed[p] = @ + 1], job)

MarkFailed(s, job) ==
    LET s1 == [s EXCEPT !.status[job] = statusFailed] IN
    checkAndMarkParentDone(incrementParentFailedCounter(s1, job), job)

\* ------------------------------------------------------------- inserts
\* INSERT of one row that meets no conflict
InsertRow(s, id, parent) ==
    [s EXCEPT !.status[id] = statusNew,
              !.parent[id] = parent,
              !.created[id] = s.clock + 1,
              !.clock = s.clock + 1]

\* mutant: the insert of Push overwrites the row on conflict
PushRow_Upsert(s, job) ==
    InsertRow(s, job, ParentID[job])

\* Push: INSERT ... ON CONFLICT DO NOTHING
PushRow(s, job) ==
    IF s.status[job] = absent THEN InsertRow(s, job, ParentID[job]) ELSE s

\* mutant: a conflict is passed over without a trace
pushJobWithParent_Silent(s, job, parentID) ==
    IF s.status[job] = absent
    THEN InsertRow(s, job, parentID)
    ELSE s

\* INSERT ... ON CONFLICT DO NOTHING; with no row affected the parent's
\* child_jobs_failed is incremented
pushJobWithParent(s, job, parentID) ==
    IF s.status[job] = absent
    THEN InsertRow(s, job, parentID)
    ELSE [s EXCEPT !.failed[parentID] = @ + 1]

\* the loop over childJobs, in slice order (ids ascending)
RECURSIVE pushAll(_, _, _)
pushAll(s, kids, parentID) ==
    IF kids = {} THEN s
    ELSE LET k == CHOOSE x \in kids : \A y \in kids : x <= y
         IN pushAll(pushJobWithParent(s, k, parentID), kids \ {k}, parentID)

AddChildCount(s, parentID, n) ==
    [s EXCEPT !.count[parentID] = @ + n]

pushChildJobs(s, parentJob, childJobs) ==
    pushAll(AddChildCount(s, parentJob, Cardinality(childJobs)), childJobs, parentJob)

\* ------------------------------------------------------------------ Init
SchedInit ==
    /\ status = [j \in Ids |-> absent]
    /\ parent_id = [j \in Ids |-> NoJob]
    /\ child_jobs_count = [j \in Ids |-> 0]
    /\ child_jobs_completed = [j \in Ids |-> 0]
    /\ child_jobs_failed = [j \in Ids |-> 0]
    /\ created_at = [j \in Ids |-> 0]
    /\ clock = 0
    /\ ParentID = [j \in Ids |-> NoJob]
    /\ variant = [j \in Ids |-> "none"]
    /\ nextId = 1
    /\ locked = [p \in Procs |-> {}]
    /\ jobs = [p \in Procs |-> <<>>]
    /\ jobc = [p \in Procs |-> <<>>]
    /\ cur = [p \in Procs |-> NoJob]
    /\ pc = [p \in Procs |-> "idle"]
    /\ nextJobs = [p \in Procs |-> {}]
    /\ async = {}
    /\ pendingPush = [p \in Procs |-> {}]
    /\ notified = [j \in Ids |-> 0]
    /\ leaseCount = [j \in Ids |-> 0]
    /\ delivered = {}
    /\ orphaned = {}
    /\ crashes = 0
    /\ pushedOver = [j \in Ids |-> "none"]
    /\ becameDone = [j \in Ids |-> 0]

\* NewResultWriter and the first lines of Run
WriterInit(url) ==
    /\ revalidationAPIURL = url
    /\ results = [e \in Entries |-> 0]
    /\ buff = <<>>
    /\ received = 0
    /\ ctxDone = FALSE
    /\ rwpc = "run"
    /\ rwret = "none"
    /\ lastFlush = NoFlush
    /\ finalFlushes = 0

\* NewCodecRegistry; no job encoded yet
JNull == <<"null">>
Failure(err) == [ok |-> FALSE, err |-> err, job |-> <<>>]
NoCodecJob == [type |-> "none"]

CodecInit(job) ==
    /\ cjob = job
    /\ cenvelope = JNull
    /\ cpayload = JNull
    /\ cdouble = FALSE
    /\ ctype = ""
    /\ cdecoded = Failure("none")
    /\ cpc = "new"
    /\ ccorrupt = FALSE

\* a parent in processing with c children done, f failed and two to come
RollupInit(c, f, kinds) ==
    /\ parentRow = [count |-> c + f + 2, completed |-> c, failed |-> f,
                    status |-> statusProcessing]
    /\ rowLock = 0
    /\ tx = [t \in Txs |-> [kind |-> kinds[t], pc |-> "begin", marksDone |-> FALSE]]
    /\ transitions = 0
    /\ before = [completed |-> c, failed |-> f]

RollupIdle == RollupInit(0, 0, [t \in Txs |-> "MarkDone"])

\* Jobs: both channels made by NewProvider are open and empty, fetchJobs
\* and the forwarder are started
FwdInit ==
    /\ perrc = <<>> /\ perrcClosed = FALSE
    /\ pjobc = <<>> /\ pjobcClosed = FALSE
    /\ fetched = 0 /\ tosend = <<>>
    /\ fpc = "top"
    /\ sentErr = "none"
    /\ fwpc = "select" /\ fwjob = NoJob
    /\ errc = <<>> /\ outc = <<>> /\ errSeen = <<>>
    /\ jctx = FALSE
    /\ currentDelay = baseDelay
    /\ emptyPolls = 0

\* no notification call has ended
NoteInit ==
    lastOutcome = [kind |-> "none", outcome |-> "none"]

\* ParseConfig is entered with the command line a
CfgInit(a) ==
    /\ argv = a
    /\ cfg = [Concurrency |-> 0, MaxDepth |-> 0, Zoom |-> 0, Dsn |-> "",
              ProduceOnly |-> FALSE, RunMode |-> 0]
    /\ cfgpc = "start"

CfgIdle ==
    CfgInit([numCPU |-> 1, c |-> NotGiven, depth |-> NotGiven, zoom |-> NotGiven,
             dsn |-> "dsn", produce |-> FALSE])

\* getRootParentJobID(ctx, jobID) is entered: currentJobID := jobID, visitedJobs
\* is empty
RootInit(g, jobID) ==
    /\ rparent = g
    /\ rjobID = jobID
    /\ currentJobID = jobID
    /\ visitedJobs = {}
    /\ rootret = [id |-> NoJob, err |-> "running"]

RootIdle == RootInit([j \in RootIds |-> NoJob], 1)

\* Run took a result of job from the channel and has not built its row
NoEntry == [built |-> FALSE, UserID |-> "", OrganizationID |-> "", ParentID |-> NoJob]

ResInit(job) ==
    /\ resJob = job
    /\ resEntry = NoEntry

ResIdle ==
    ResInit([type |-> "GmapJob", wrapped |-> FALSE, ID |-> 1, OwnerID |-> "u1",
             OrganizationID |-> "o1", ParentID |-> NoJob])

\* NewProvider: both channels open and empty, nothing started; every row
\* is new, the rows of bad hold a payload that does not decode
ProvInit(bad) ==
    /\ rowsTbl = [r \in Rows |-> statusNew]
    /\ poisoned = bad
    /\ started = FALSE
    /\ fetchers = 0
    /\ lpc = "idle"
    /\ rowsCur = <<>>
    /\ jobsSlice = <<>>
    /\ batch = {}
    /\ leases = 0
    /\ lerr = "none"
    /\ jobcQ = <<>> /\ jobcClosedQ = FALSE
    /\ errcQ = <<>> /\ errcClosedQ = FALSE
    /\ fw = [c \in Callers |-> [pc |-> "none", job |-> NoWrapped, outc |-> <<>>,
                                errc |-> <<>>]]
    /\ pctx = FALSE

ProvIdle == ProvInit({})

Init ==
    /\ SchedInit
    /\ WriterInit("url")
    /\ CodecInit(NoCodecJob)
    /\ RollupIdle
    /\ FwdInit
    /\ NoteInit
    /\ CfgIdle
    /\ RootIdle
    /\ ResIdle
    /\ ProvIdle

\* ----------------------------------------------------- business Process
\* What the business Process of each variant may return: PlaceJob returns at
\* most one EmailExtractJob, EmailExtractJob returns no job.
MaxKidsOf(v) ==
    CASE v = "place" -> IF MaxKids > 0 THEN 1 ELSE 0
      [] v = "email" -> 0
      [] OTHER -> MaxKids

KidVariants(v) ==
    CASE v = "search" -> {"place", "company"}
      [] v = "place" -> {"email"}
      [] v = "company" -> {"email"}
      [] OTHER -> {}

Roots == {j \in Ids : variant[j] # "none" /\ ParentID[j] = NoJob}

\* ------------------------------------------------------------ seed, Push
\* The seed loader creates a GmapJob without parent and pushes it.
SeedPush ==
    /\ nextId <= MaxJobs
    /\ Cardinality(Roots) < MaxRoots
    /\ variant' = [variant EXCEPT ![nextId] = "search"]
    /\ nextId' = nextId + 1
    /\ Commit(PushRow(DB, nextId))
    /\ UNCHANGED <<compvars, pushedOver, ParentID, leasevars, workervars, async, pendingPush,
                   notified, delivered, orphaned, crashes>>

\* The framework pushes a next job that jobWrapper.Process returned.
FrameworkPush(p) ==
    \E c \in pendingPush[p] :
      /\ Commit(PushRow(DB, c))
      /\ pendingPush' = [pendingPush EXCEPT ![p] = @ \ {c}]
      /\ pushedOver' = IF status[c] = absent THEN pushedOver
                       ELSE [pushedOver EXCEPT ![c] = status[c]]
      /\ UNCHANGED <<compvars, objvars, leasevars, workervars, async,
                     notified, delivered, orphaned, crashes>>

\* ------------------------------------------------------------ lease loop
\* mutant: ORDER BY created_at ASC
Before_CreatedOnly(a, b) ==
    created_at[a] < created_at[b]

\* ORDER BY priority ASC, created_at ASC
Before(a, b) ==
    \/ Priority(variant[a]) < Priority(variant[b])
    \/ /\ Priority(variant[a]) = Priority(variant[b])
       /\ created_at[a] < created_at[b]

\* mutant: the sub-select takes no row lock
Leasable_NoRowLock(p, j) ==
    status[j] = statusNew

\* WHERE status = 'new' ... FOR UPDATE SKIP LOCKED
Leasable(p, j) ==
    /\ status[j] = statusNew
    /\ \A q \in Procs \ {p} : j \notin locked[q]

LeaseBatch(p) ==
    LET cands == {j \in Ids : Leasable(p, j)} IN
    {j \in cands : Cardinality({i \in cands : Before(i, j)}) < LeaseLimit}

RECURSIVE SortBatch(_)
SortBatch(S) ==
    IF S = {} THEN <<>>
    ELSE LET m == CHOOSE x \in S : \A y \in S \ {x} : Before(x, y)
         IN <<m>> \o SortBatch(S \ {m})

\* The sub-select of the lease statement has locked its rows.
LeaseSelect(p) ==
    /\ locked[p] = {}
    /\ jobs[p] = <<>>
    /\ LeaseBatch(p) # {}
    /\ locked' = [locked EXCEPT ![p] = LeaseBatch(p)]
    /\ UNCHANGED <<compvars, pushedOver, dbvars, objvars, jobs, jobc, leaseCount, workervars, async,
                   pendingPush, notified, delivered, orphaned, crashes>>

\* The UPDATE flips the locked rows and the statement returns them.
LeaseCommit(p) ==
    /\ locked[p] # {}
    /\ status' = [j \in Ids |-> IF j \in locked[p] THEN statusQueued ELSE status[j]]
    /\ jobs' = [jobs EXCEPT ![p] = SortBatch(locked[p])]
    /\ leaseCount' = [j \in Ids |-> IF j \in locked[p] THEN leaseCount[j] + 1
                                    ELSE leaseCount[j]]
    /\ locked' = [locked EXCEPT ![p] = {}]
    /\ UNCHANGED <<compvars, pushedOver, parent_id, child_jobs_count, child_jobs_completed,
                   child_jobs_failed, created_at, clock, becameDone, objvars, jobc,
                   workervars, async, pendingPush, notified, delivered,
                   orphaned, crashes>>

\* mutant: the slice is reset inside the send loop
SendJob_ResetInLoop(p) ==
    /\ jobs[p] # <<>>
    /\ Len(jobc[p]) < JobcCap
    /\ jobc' = [jobc EXCEPT ![p] = Append(@, Head(jobs[p]))]
    /\ jobs' = [jobs EXCEPT ![p] = <<>>]
    /\ UNCHANGED <<compvars, pushedOver, dbvars, objvars, locked, leaseCount, workervars, async,
                   pendingPush, notified, delivered, orphaned, crashes>>

\* case p.jobc <- job
SendJob(p) ==
    /\ jobs[p] # <<>>
    /\ Len(jobc[p]) < JobcCap
    /\ jobc' = [jobc EXCEPT ![p] = Append(@, Head(jobs[p]))]
    /\ jobs' = [jobs EXCEPT ![p] = Tail(@)]
    /\ UNCHANGED <<compvars, pushedOver, dbvars, objvars, locked, leaseCount, workervars, async,
                   pendingPush, notified, delivered, orphaned, crashes>>

\* Jobs(): the job is taken from jobc, wrapped and received by the worker.
Deliver(p) ==
    /\ cur[p] = NoJob
    /\ jobc[p] # <<>>
    /\ cur' = [cur EXCEPT ![p] = Head(jobc[p])]
    /\ pc' = [pc EXCEPT ![p] = "process"]
    /\ jobc' = [jobc EXCEPT ![p] = Tail(@)]
    /\ delivered' = delivered \cup {Head(jobc[p])}
    /\ UNCHANGED <<compvars, pushedOver, dbvars, objvars, locked, jobs, leaseCount, nextJobs, async,
                   pendingPush, notified, orphaned, crashes>>

\* ------------------------------------------------------------ jobWrapper
Idle(p) ==
    /\ cur' = [cur EXCEPT ![p] = NoJob]
    /\ pc' = [pc EXCEPT ![p] = "idle"]
    /\ nextJobs' = [nextJobs EXCEPT ![p] = {}]

\* Process returned an error: MarkFailed.
ProcessError(p, ok) ==
    /\ pc[p] = "process"
    /\ Finish(MarkFailed(DB, cur[p]), ok)
    /\ Idle(p)
    /\ UNCHANGED <<compvars, pushedOver, objvars, leasevars, async, pendingPush, delivered,
                   orphaned, crashes>>

\* Process returned no next job: MarkDone(job, 0).
ProcessLeaf(p, ok) ==
    /\ pc[p] = "process"
    /\ Finish(MarkDone(DB, cur[p], 0), ok)
    /\ Idle(p)
    /\ UNCHANGED <<compvars, pushedOver, objvars, leasevars, async, pendingPush, delivered,
                   orphaned, crashes>>

\* Process returned k next jobs: they are pushed the way the variant asks.
Fanout(p, k, kv, limit) ==
    LET job == cur[p]
        kids == nextId..(nextId + k - 1)
    IN
    /\ pc[p] = "process"
    /\ k >= 1
    /\ k <= MaxKidsOf(variant[job])
    /\ kv \in KidVariants(variant[job])
    /\ nextId + k - 1 <= limit
    /\ variant' = [j \in Ids |-> IF j \in kids THEN kv ELSE variant[j]]
    /\ ParentID' = [j \in Ids |-> IF j \in kids THEN job ELSE ParentID[j]]
    /\ nextId' = nextId + k
    /\ nextJobs' = [nextJobs EXCEPT ![p] = kids]
    /\ pc' = [pc EXCEPT ![p] = "markdone"]
    /\ CASE variant[job] = "company" ->
              /\ async' = async \cup {[proc |-> p, parent |-> job, kids |-> kids,
                                       kind |-> "company"]}
              /\ UNCHANGED dbvars
         [] variant[job] = "place" ->
              /\ async' = async \cup {[proc |-> p, parent |-> job, kids |-> kids,
                                       kind |-> "place"]}
              /\ Commit(AddChildCount(DB, job, k))
         [] OTHER ->
              /\ Commit(pushChildJobs(DB, job, kids))
              /\ UNCHANGED async
    /\ UNCHANGED <<compvars, pushedOver, leasevars, cur, pendingPush, notified, delivered,
                   orphaned, crashes>>

ProcessFanout(p, k, kv) == Fanout(p, k, kv, MaxJobs)

\* mutant: the wrapper marks the job failed when the push fails
FanoutError_MarksFailed(p, k, kv, limit) ==
    LET job == cur[p]
        kids == nextId..(nextId + k - 1)
    IN
    /\ pc[p] = "process"
    /\ variant[job] # "company"
    /\ k >= 1
    /\ k <= MaxKidsOf(variant[job])
    /\ kv \in KidVariants(variant[job])
    /\ nextId + k - 1 <= limit
    /\ variant' = [j \in Ids |-> IF j \in kids THEN kv ELSE variant[j]]
    /\ ParentID' = [j \in Ids |-> IF j \in kids THEN job ELSE ParentID[j]]
    /\ nextId' = nextId + k
    /\ Finish(MarkFailed(DB, job), TRUE)
    /\ Idle(p)
    /\ UNCHANGED <<compvars, pushedOver, leasevars, async, pendingPush,
                   delivered, orphaned, crashes>>

\* Process returned k next jobs and the transaction of pushChildJobs, or the
\* first one of pushChildJobsForPlaceJob, fails: it is rolled back and the
\* wrapper returns the error (pushChildJobsAsync returns no error)
FanoutError(p, k, kv, limit) ==
    LET job == cur[p]
        kids == nextId..(nextId + k - 1)
    IN
    /\ pc[p] = "process"
    /\ variant[job] # "company"
    /\ k >= 1
    /\ k <= MaxKidsOf(variant[job])
    /\ kv \in KidVariants(variant[job])
    /\ nextId + k - 1 <= limit
    /\ variant' = [j \in Ids |-> IF j \in kids THEN kv ELSE variant[j]]
    /\ ParentID' = [j \in Ids |-> IF j \in kids THEN job ELSE ParentID[j]]
    /\ nextId' = nextId + k
    /\ Idle(p)
    /\ UNCHANGED <<compvars, pushedOver, dbvars, leasevars, async, pendingPush,
                   notified, delivered, orphaned, crashes>>

\* MarkDone(job, len(nextJobs)) and the return of the wrapped next jobs.
ProcessMarkDone(p, ok) ==
    /\ pc[p] = "markdone"
    /\ Finish(MarkDone(DB, cur[p], Cardinality(nextJobs[p])), ok)
    /\ pendingPush' = [pendingPush EXCEPT ![p] =
            IF ok /\ variant[cur[p]] # "company" THEN @ \cup nextJobs[p] ELSE @]
    /\ Idle(p)
    /\ UNCHANGED <<compvars, pushedOver, objvars, leasevars, async, delivered, orphaned, crashes>>

\* mutant: the goroutine commits after each child
AsyncPush_OneByOne(t) ==
    LET k == CHOOSE x \in t.kids : \A y \in t.kids : x <= y
        rest == [t EXCEPT !.kids = t.kids \ {k}, !.kind = "place"]
    IN
    /\ t \in async
    /\ async' = (async \ {t}) \cup (IF rest.kids = {} THEN {} ELSE {rest})
    /\ IF t.kind = "company"
       THEN Commit(pushAll(AddChildCount(DB, t.parent, Cardinality(t.kids)),
                           {k}, t.parent))
       ELSE Commit(pushAll(DB, {k}, t.parent))
    /\ UNCHANGED <<compvars, pushedOver, objvars, leasevars, workervars, pendingPush, notified,
                   delivered, orphaned, crashes>>

\* The goroutine of pushChildJobsAsync / pushChildJobsForPlaceJob commits.
AsyncPush(t) ==
    /\ t \in async
    /\ async' = async \ {t}
    /\ IF t.kind = "company"
       THEN Commit(pushChildJobs(DB, t.parent, t.kids))
       ELSE Commit(pushAll(DB, t.kids, t.parent))
    /\ UNCHANGED <<compvars, pushedOver, objvars, leasevars, workervars, pendingPush, notified,
                   delivered, orphaned, crashes>>

\* ------------------------------------------------------------ stop
\* The process stops: everything it holds in memory is gone, the lease
\* statement it was running is rolled back, the rows stay as committed.
\* The goroutines pushing children run on context.Background(): they end
\* with a killed process (kill) and outlive a cancelled context.
InMemory(p) ==
    {jobs[p][i] : i \in 1..Len(jobs[p])} \cup {jobc[p][i] : i \in 1..Len(jobc[p])}
        \cup (IF cur[p] = NoJob THEN {} ELSE {cur[p]})

Crash(p, kill) ==
    /\ crashes < MaxCrashes
    /\ InMemory(p) # {}
    /\ crashes' = crashes + 1
    /\ orphaned' = orphaned \cup {j \in InMemory(p) : status[j] = statusQueued}
    /\ locked' = [locked EXCEPT ![p] = {}]
    /\ jobs' = [jobs EXCEPT ![p] = <<>>]
    /\ jobc' = [jobc EXCEPT ![p] = <<>>]
    /\ Idle(p)
    /\ async' = IF kill THEN {t \in async : t.proc # p} ELSE async
    /\ pendingPush' = [pendingPush EXCEPT ![p] = {}]
    /\ UNCHANGED <<compvars, pushedOver, dbvars, objvars, leaseCount, notified, delivered>>

\* ------------------------------------------------------------ the system
Step(p, ok) ==
    \/ FrameworkPush(p)
    \/ LeaseSelect(p)
    \/ LeaseCommit(p)
    \/ SendJob(p)
    \/ Deliver(p)
    \/ ProcessError(p, ok)
    \/ ProcessLeaf(p, ok)
    \/ \E k \in 1..MaxKids, kv \in Variants : ProcessFanout(p, k, kv)
    \/ ProcessMarkDone(p, ok)

Next ==
    \/ SeedPush
    \/ \E p \in Procs, ok \in BOOLEAN : Step(p, ok)
    \/ \E t \in async : AsyncPush(t)
    \/ \E p \in Procs, kill \in BOOLEAN : Crash(p, kill)

Spec == Init /\ [][Next]_vars

\* No process stops and no statement fails; every goroutine is scheduled.
NextFair ==
    \/ SeedPush
    \/ \E p \in Procs : Step(p, TRUE)
    \/ \E t \in async : AsyncPush(t)

FairSpec == Init /\ [][NextFair]_vars /\ WF_vars(NextFair)

\* One worker process that does not stop, with its goroutines; the id space
\* has SpareIds more ids, so that a job under a root can return MaxKids
\* children.
AsyncNext ==
    \/ SeedPush
    \/ FrameworkPush("p1")
    \/ LeaseSelect("p1")
    \/ LeaseCommit("p1")
    \/ SendJob("p1")
    \/ Deliver("p1")
    \/ \E ok \in BOOLEAN : ProcessError("p1", ok)
    \/ \E ok \in BOOLEAN : ProcessLeaf("p1", ok)
    \/ \E k \in 1..MaxKids, kv \in Variants : Fanout("p1", k, kv, MaxJobs + SpareIds)
    \/ \E ok \in BOOLEAN : ProcessMarkDone("p1", ok)
    \/ \E t \in async : AsyncPush(t)

AsyncSpec == Init /\ [][AsyncNext]_vars

\* The same worker, whose push of the children can fail.
WrapNext ==
    \/ SeedPush
    \/ FrameworkPush("p1")
    \/ LeaseSelect("p1")
    \/ LeaseCommit("p1")
    \/ SendJob("p1")
    \/ Deliver("p1")
    \/ \E ok \in BOOLEAN : ProcessError("p1", ok)
    \/ \E ok \in BOOLEAN : ProcessLeaf("p1", ok)
    \/ \E k \in 1..MaxKids, kv \in Variants : Fanout("p1", k, kv, MaxJobs + SpareIds)
    \/ \E k \in 1..MaxKids, kv \in Variants : FanoutError("p1", k, kv, MaxJobs + SpareIds)
    \/ \E ok \in BOOLEAN : ProcessMarkDone("p1", ok)
    \/ \E t \in async : AsyncPush(t)

WrapSpec == Init /\ [][WrapNext]_vars

TypeOK ==
    /\ status \in [Ids -> {absent, statusNew, statusQueued, statusProcessing,
                           statusDone, statusFailed}]
    /\ parent_id \in [Ids -> 0..MaxJobs]
    /\ nextId \in 1..(MaxJobs + 1)
    /\ \A p \in Procs : cur[p] \in 0..MaxJobs


\* ====================================================================
\* Result writer
\* ====================================================================
\* The parent_id column of a result row is resolved from the lineage of the
\* job and takes no part in what the writer buffers, saves or notifies.

\* whether checkDuplicateURL runs its SELECT (it answers false without one)
QueriesStore(url, userID, organizationID) ==
    url # "" /\ (userID # "" \/ organizationID # "")

\* SELECT COUNT(*) FROM results WHERE link = $1 AND ... ; count > 0
checkDuplicateURL(rows, url, userID, organizationID) ==
    IF url = "" THEN FALSE
    ELSE IF userID # "" /\ organizationID # ""
    THEN \E r \in Entries : /\ rows[r] > 0
                            /\ r.Link = url
                            /\ (r.UserID = userID \/ r.OrganizationID = organizationID)
    ELSE IF userID # ""
    THEN \E r \in Entries : rows[r] > 0 /\ r.Link = url /\ r.UserID = userID
    ELSE IF organizationID # ""
    THEN \E r \in Entries : /\ rows[r] > 0
                            /\ r.Link = url
                            /\ r.OrganizationID = organizationID
    ELSE FALSE

CountIn(entries, e) == Cardinality({i \in 1..Len(entries) : entries[i] = e})

\* mutant: one goroutine per entry of the batch
notifyRevalidation_PerEntry(url, entries) ==
    IF url = "" THEN NoCalls
    ELSE [u \in UserIDs |->
            IF u = "" THEN 0
            ELSE Cardinality({i \in 1..Len(entries) : entries[i].UserID = u})]

\* the goroutines notifyRevalidation starts, per user id
notifyRevalidation(url, entries) ==
    IF url = "" THEN NoCalls
    ELSE LET userIDs == {entries[i].UserID : i \in 1..Len(entries)} \ {""}
         IN [u \in UserIDs |-> IF u \in userIDs THEN 1 ELSE 0]

\* mutant: no rollback, the rows inserted before the failure stay
batchSave_NoRollback(rows, entries, cancelled, sok) ==
    IF entries = <<>> THEN [err |-> "nil", rows |-> rows, calls |-> NoCalls]
    ELSE IF cancelled THEN [err |-> "ctxErr", rows |-> rows, calls |-> NoCalls]
    ELSE IF ~sok THEN [err |-> "saveErr",
                       rows |-> [e \in Entries |-> rows[e] + CountIn(<<entries[1]>>, e)],
                       calls |-> NoCalls]
    ELSE [err |-> "nil",
          rows |-> [e \in Entries |-> rows[e] + CountIn(entries, e)],
          calls |-> notifyRevalidation(revalidationAPIURL, entries)]

\* batchSave under a context that is cancelled or not; sok: no statement of
\* the transaction fails. BeginTx on a cancelled context returns ctx.Err().
batchSave(rows, entries, cancelled, sok) ==
    IF entries = <<>> THEN [err |-> "nil", rows |-> rows, calls |-> NoCalls]
    ELSE IF cancelled THEN [err |-> "ctxErr", rows |-> rows, calls |-> NoCalls]
    ELSE IF ~sok THEN [err |-> "saveErr", rows |-> rows, calls |-> NoCalls]
    ELSE [err |-> "nil",
          rows |-> [e \in Entries |-> rows[e] + CountIn(entries, e)],
          calls |-> notifyRevalidation(revalidationAPIURL, entries)]

\* Run returns err
Return(err) ==
    /\ rwpc' = "returned"
    /\ rwret' = err

\* batchSave(ctx, entries) of the select loop: on error Run returns it, else
\* the buffer is emptied.
SaveInLoop(entries, sok) ==
    LET r == batchSave(results, entries, ctxDone, sok) IN
    /\ results' = r.rows
    /\ lastFlush' = [batch |-> entries, ctx |-> "run", err |-> r.err,
                     calls |-> r.calls]
    /\ IF r.err # "nil"
       THEN Return(r.err) /\ buff' = entries
       ELSE buff' = <<>> /\ UNCHANGED <<rwpc, rwret>>

\* case result, ok := <-in, with ok and an entry as data
Receive(e, qok, sok) ==
    /\ rwpc = "run"
    /\ received < MaxResults
    /\ received' = received + 1
    /\ IF \/ /\ QueriesStore(e.Link, e.UserID, e.OrganizationID)
             /\ (ctxDone \/ ~qok)
          \/ checkDuplicateURL(results, e.Link, e.UserID, e.OrganizationID)
       THEN UNCHANGED <<results, buff, rwpc, rwret, lastFlush>>
       ELSE IF Len(buff) + 1 >= MaxBatchSize
       THEN SaveInLoop(Append(buff, e), sok)
       ELSE /\ buff' = Append(buff, e)
            /\ UNCHANGED <<results, rwpc, rwret, lastFlush>>
    /\ UNCHANGED <<notwriter, revalidationAPIURL, ctxDone, finalFlushes>>

\* case result, ok := <-in, with data that is no entry
ReceiveInvalid ==
    /\ rwpc = "run"
    /\ received < MaxResults
    /\ received' = received + 1
    /\ Return("invalid data type")
    /\ UNCHANGED <<notwriter, revalidationAPIURL, results, buff, ctxDone, lastFlush,
                   finalFlushes>>

\* case result, ok := <-in, with the channel closed
InClosed(sok) ==
    /\ rwpc = "run"
    /\ IF Len(buff) > 0
       THEN LET r == batchSave(results, buff, ctxDone, sok) IN
            /\ results' = r.rows
            /\ lastFlush' = [batch |-> buff, ctx |-> "run", err |-> r.err,
                             calls |-> r.calls]
            /\ Return(r.err)
            /\ UNCHANGED buff
       ELSE /\ Return("nil")
            /\ UNCHANGED <<results, buff, lastFlush>>
    /\ UNCHANGED <<notwriter, revalidationAPIURL, received, ctxDone, finalFlushes>>

\* case <-ticker.C, five seconds or more after the last save
Tick(sok) ==
    /\ rwpc = "run"
    /\ Len(buff) > 0
    /\ SaveInLoop(buff, sok)
    /\ UNCHANGED <<notwriter, revalidationAPIURL, received, ctxDone, finalFlushes>>

\* the caller cancels the context of Run
Cancel ==
    /\ rwpc = "run"
    /\ ~ctxDone
    /\ ctxDone' = TRUE
    /\ UNCHANGED <<notwriter, revalidationAPIURL, results, buff, received, rwpc, rwret,
                   lastFlush, finalFlushes>>

\* case <-ctx.Done()
OnCtxDone(sok) ==
    /\ rwpc = "run"
    /\ ctxDone
    /\ IF Len(buff) > 0
       THEN LET r == batchSave(results, buff, FALSE, sok) IN
            /\ results' = r.rows
            /\ lastFlush' = [batch |-> buff, ctx |-> "fresh", err |-> r.err,
                             calls |-> r.calls]
            /\ finalFlushes' = finalFlushes + 1
       ELSE UNCHANGED <<results, lastFlush, finalFlushes>>
    /\ Return("ctxErr")
    /\ UNCHANGED <<notwriter, revalidationAPIURL, buff, received, ctxDone>>

WriterNext ==
    \/ \E e \in Entries, qok \in BOOLEAN, sok \in BOOLEAN : Receive(e, qok, sok)
    \/ ReceiveInvalid
    \/ \E sok \in BOOLEAN : InClosed(sok)
    \/ \E sok \in BOOLEAN : Tick(sok)
    \/ Cancel
    \/ \E sok \in BOOLEAN : OnCtxDone(sok)

WriterSpecInit ==
    /\ SchedInit
    /\ \E url \in {"", "url"} : WriterInit(url)
    /\ CodecInit(NoCodecJob)
    /\ RollupIdle
    /\ FwdInit
    /\ NoteInit
    /\ CfgIdle
    /\ RootIdle
    /\ ResIdle
    /\ ProvIdle

WriterSpec == WriterSpecInit /\ [][WriterNext]_vars

\* ====================================================================
\* Codec registry
\* ====================================================================
\* A JSON document is a tagged value: <<"null">>, <<"str", s>>, <<"num", n>>,
\* <<"bool", b>>, <<"obj", f>> with f a function on the keys present, and
\* <<"strdoc", d>>, the JSON string whose content is the text of document d.
JStr(s) == <<"str", s>>
JNum(n) == <<"num", n>>
JBool(b) == <<"bool", b>>
JObj(f) == <<"obj", f>>
JStrDoc(d) == <<"strdoc", d>>

Has(f, k) == k \in DOMAIN f
IsA(f, k, tag) == Has(f, k) /\ f[k][1] = tag

\* gmaps.Entry through encoding/json: every field is written under its key
\* and read back from it
EntryToJSON(e) ==
    JObj([web_site |-> JStr(e.WebSite), title |-> JStr(e.Title)])

EntryFromJSON(f) ==
    [WebSite |-> IF IsA(f, "web_site", "str") THEN f["web_site"][2] ELSE "",
     Title |-> IF IsA(f, "title", "str") THEN f["title"][2] ELSE ""]

ZeroEntry == [WebSite |-> "", Title |-> ""]

\* the *string of JSONJob.ParentID
NilPtr == <<"nil">>
Ptr(s) == <<"ptr", s>>

\* the common part of every Encode
EncodeBase(j, jobType, metadata) ==
    [ID |-> j.ID, Priority |-> j.Priority, URL |-> j.URL,
     URLParams |-> j.URLParams, MaxRetries |-> j.MaxRetries,
     JobType |-> jobType, Metadata |-> metadata,
     ParentID |-> IF j.ParentID # "" THEN Ptr(j.ParentID) ELSE NilPtr]

GmapJobCodec_Encode(j) ==
    EncodeBase(j, "search",
        [max_depth |-> JNum(j.MaxDepth), lang_code |-> JStr(j.LangCode),
         extract_email |-> JBool(j.ExtractEmail),
         extract_bodacc |-> JBool(j.ExtractBodacc),
         owner_id |-> JStr(j.OwnerID),
         organization_id |-> JStr(j.OrganizationID)])

PlaceJobCodec_Encode(j) ==
    EncodeBase(j, "place",
        [usage_in_results |-> JBool(j.UsageInResults),
         extract_email |-> JBool(j.ExtractEmail),
         extract_bodacc |-> JBool(j.ExtractBodacc),
         owner_id |-> JStr(j.OwnerID),
         organization_id |-> JStr(j.OrganizationID)])

EmailJobCodec_Encode(j) ==
    EncodeBase(j, "email",
        [entry |-> EntryToJSON(j.Entry), parent_id |-> JStr(j.ParentID),
         owner_id |-> JStr(j.OwnerID),
         organization_id |-> JStr(j.OrganizationID)])

CompanyJobCodec_Encode(j) ==
    EncodeBase(j, "bodacc",
        [company_name |-> JStr(j.CompanyName), address |-> JStr(j.Address),
         owner_id |-> JStr(j.OwnerID),
         organization_id |-> JStr(j.OrganizationID),
         entry |-> EntryToJSON(j.Entry)])

PappersJobCodec_Encode(j) ==
    EncodeBase(j, "pappers",
        [owner_id |-> JStr(j.OwnerID),
         organization_id |-> JStr(j.OrganizationID),
         entry |-> EntryToJSON(j.Entry)])

JobTypes == {"search", "place", "email", "bodacc", "pappers"}

\* the type switch of EncodeJob on the (unwrapped) job
JobTypeOf(goType) ==
    CASE goType = "GmapJob" -> "search"
      [] goType = "PlaceJob" -> "place"
      [] goType = "EmailExtractJob" -> "email"
      [] goType = "CompanyJob" -> "bodacc"
      [] goType = "PappersJob" -> "pappers"
      [] OTHER -> ""

\* wrapper, ok := job.(*jobWrapper): the job inside
Unwrapped(job) == IF job.type = "jobWrapper" THEN job.IJob ELSE job

EncodeJob(job) ==
    LET actualJob == Unwrapped(job)
        jobType == JobTypeOf(actualJob.type)
    IN
    CASE jobType = "search" -> [ok |-> TRUE, jobType |-> jobType, json |-> GmapJobCodec_Encode(actualJob)]
      [] jobType = "place" -> [ok |-> TRUE, jobType |-> jobType, json |-> PlaceJobCodec_Encode(actualJob)]
      [] jobType = "email" -> [ok |-> TRUE, jobType |-> jobType, json |-> EmailJobCodec_Encode(actualJob)]
      [] jobType = "bodacc" -> [ok |-> TRUE, jobType |-> jobType, json |-> CompanyJobCodec_Encode(actualJob)]
      [] jobType = "pappers" -> [ok |-> TRUE, jobType |-> jobType, json |-> PappersJobCodec_Encode(actualJob)]
      [] OTHER -> [ok |-> FALSE, jobType |-> "", json |-> NilPtr]

\* json.Marshal of a JSONJob: parent_id is omitted when the pointer is nil
Marshal(jj) ==
    LET base == [id |-> JStr(jj.ID), priority |-> JNum(jj.Priority),
                 url |-> JStr(jj.URL),
                 url_params |-> IF jj.URLParams[1] = "nil" THEN JNull
                                ELSE JObj(jj.URLParams[2]),
                 max_retries |-> JNum(jj.MaxRetries),
                 job_type |-> JStr(jj.JobType),
                 metadata |-> JObj(jj.Metadata)]
    IN JObj(IF jj.ParentID[1] = "ptr"
            THEN ("parent_id" :> JStr(jj.ParentID[2])) @@ base
            ELSE base)

\* json.Unmarshal of one member into a field of the given JSON type: a
\* missing member and null leave the zero value, another type is an error
FieldOK(f, k, tag) == ~Has(f, k) \/ f[k][1] \in {tag, "null"}
FieldVal(f, k, tag, zero) == IF IsA(f, k, tag) THEN f[k][2] ELSE zero

ZeroJSONJob ==
    [ID |-> "", Priority |-> 0, URL |-> "", URLParams |-> <<"nil">>,
     MaxRetries |-> 0, JobType |-> "", Metadata |-> <<>>, ParentID |-> NilPtr]

\* json.Unmarshal(payload, &jsonJob)
Unmarshal(doc) ==
    IF doc[1] = "null" THEN [ok |-> TRUE, json |-> ZeroJSONJob]
    ELSE IF doc[1] # "obj" THEN [ok |-> FALSE, json |-> ZeroJSONJob]
    ELSE LET f == doc[2] IN
         IF /\ FieldOK(f, "id", "str") /\ FieldOK(f, "priority", "num")
            /\ FieldOK(f, "url", "str") /\ FieldOK(f, "url_params", "obj")
            /\ FieldOK(f, "max_retries", "num") /\ FieldOK(f, "job_type", "str")
            /\ FieldOK(f, "metadata", "obj") /\ FieldOK(f, "parent_id", "str")
         THEN [ok |-> TRUE,
               json |-> [ID |-> FieldVal(f, "id", "str", ""),
                         Priority |-> FieldVal(f, "priority", "num", 0),
                         URL |-> FieldVal(f, "url", "str", ""),
                         URLParams |-> IF IsA(f, "url_params", "obj")
                                       THEN <<"map", f["url_params"][2]>>
                                       ELSE <<"nil">>,
                         MaxRetries |-> FieldVal(f, "max_retries", "num", 0),
                         JobType |-> FieldVal(f, "job_type", "str", ""),
                         Metadata |-> FieldVal(f, "metadata", "obj", <<>>),
                         ParentID |-> IF IsA(f, "parent_id", "str")
                                      THEN Ptr(f["parent_id"][2]) ELSE NilPtr]]
         ELSE [ok |-> FALSE, json |-> ZeroJSONJob]

\* int(floatValue) of the float64 encoding/json yields for a number: exact
\* for the depths used here
getIntFromMetadata(metadata, key) ==
    IF ~Has(metadata, key) THEN [ok |-> FALSE, v |-> 0]
    ELSE IF metadata[key][1] # "num" THEN [ok |-> FALSE, v |-> 0]
    ELSE [ok |-> TRUE, v |-> metadata[key][2]]

Success(job) == [ok |-> TRUE, err |-> "", job |-> job]

\* the scrapemate.Job part of every Decode
DecodeBase(jj, goType) ==
    [type |-> goType, ID |-> jj.ID,
     ParentID |-> IF jj.ParentID[1] = "ptr" THEN jj.ParentID[2] ELSE "",
     URL |-> jj.URL, URLParams |-> jj.URLParams,
     MaxRetries |-> jj.MaxRetries, Priority |-> jj.Priority]

\* v, _ := metadata[key].(bool)
BoolOrFalse(m, k) == IF IsA(m, k, "bool") THEN m[k][2] ELSE FALSE

\* mutant: Decode does not copy the parent id
GmapJobCodec_Decode_NoParent(jj) ==
    LET m == jj.Metadata IN
    IF ~getIntFromMetadata(m, "max_depth").ok THEN Failure("failed to get max_depth")
    ELSE IF ~IsA(m, "lang_code", "str") THEN Failure("lang_code is missing or not a string")
    ELSE IF ~IsA(m, "extract_email", "bool") THEN Failure("extract_email is missing or not a boolean")
    ELSE IF ~IsA(m, "owner_id", "str") THEN Failure("owner_id is missing or not a string")
    ELSE IF ~IsA(m, "organization_id", "str") THEN Failure("organization_id is not a string")
    ELSE Success([DecodeBase(jj, "GmapJob") EXCEPT !.ParentID = ""] @@
                 [MaxDepth |-> getIntFromMetadata(m, "max_depth").v,
                  LangCode |-> m["lang_code"][2],
                  ExtractEmail |-> m["extract_email"][2],
                  ExtractBodacc |-> BoolOrFalse(m, "extract_bodacc"),
                  OwnerID |-> m["owner_id"][2],
                  OrganizationID |-> m["organization_id"][2]])

GmapJobCodec_Decode(jj) ==
    LET m == jj.Metadata IN
    IF ~getIntFromMetadata(m, "max_depth").ok THEN Failure("failed to get max_depth")
    ELSE IF ~IsA(m, "lang_code", "str") THEN Failure("lang_code is missing or not a string")
    ELSE IF ~IsA(m, "extract_email", "bool") THEN Failure("extract_email is missing or not a boolean")
    ELSE IF ~IsA(m, "owner_id", "str") THEN Failure("owner_id is missing or not a string")
    ELSE IF ~IsA(m, "organization_id", "str") THEN Failure("organization_id is not a string")
    ELSE Success(DecodeBase(jj, "GmapJob") @@
                 [MaxDepth |-> getIntFromMetadata(m, "max_depth").v,
                  LangCode |-> m["lang_code"][2],
                  ExtractEmail |-> m["extract_email"][2],
                  ExtractBodacc |-> BoolOrFalse(m, "extract_bodacc"),
                  OwnerID |-> m["owner_id"][2],
                  OrganizationID |-> m["organization_id"][2]])

PlaceJobCodec_Decode(jj) ==
    LET m == jj.Metadata IN
    IF ~IsA(m, "usage_in_results", "bool") THEN Failure("usage_in_results is missing or not a boolean")
    ELSE IF ~IsA(m, "extract_email", "bool") THEN Failure("extract_email is missing or not a boolean")
    ELSE IF ~IsA(m, "owner_id", "str") THEN Failure("owner_id is missing or not a string")
    ELSE IF ~IsA(m, "organization_id", "str") THEN Failure("organization_id is not a string")
    ELSE Success(DecodeBase(jj, "PlaceJob") @@
                 [UsageInResults |-> m["usage_in_results"][2],
                  ExtractEmail |-> m["extract_email"][2],
                  ExtractBodacc |-> BoolOrFalse(m, "extract_bodacc"),
                  OwnerID |-> m["owner_id"][2],
                  OrganizationID |-> m["organization_id"][2]])

\* gmaps.NewEmailJob: PriorityHigh = 0, defaultMaxRetries = 0
NewEmailJob(parentID, entry, ownerID, organizationID) ==
    [type |-> "EmailExtractJob", ID |-> "fresh uuid", ParentID |-> parentID,
     URL |-> entry.WebSite, URLParams |-> <<"nil">>, MaxRetries |-> 0,
     Priority |-> 0, Entry |-> entry, OwnerID |-> ownerID,
     OrganizationID |-> organizationID]

EmailJobCodec_Decode(jj) ==
    LET m == jj.Metadata IN
    IF ~IsA(m, "parent_id", "str") THEN Failure("parent_id is missing or not a string")
    ELSE IF ~IsA(m, "entry", "obj") THEN Failure("entry is missing or not an object")
    ELSE IF ~IsA(m, "owner_id", "str") THEN Failure("owner_id is missing or not a string")
    ELSE IF ~IsA(m, "organization_id", "str") THEN Failure("organization_id is missing or not a string")
    ELSE LET job == NewEmailJob(m["parent_id"][2], EntryFromJSON(m["entry"][2]),
                                m["owner_id"][2], m["organization_id"][2])
         IN Success([job EXCEPT
                       !.ID = jj.ID,
                       !.ParentID = IF jj.ParentID[1] = "ptr" THEN jj.ParentID[2] ELSE "",
                       !.URL = jj.URL,
                       !.URLParams = jj.URLParams,
                       !.MaxRetries = jj.MaxRetries,
                       !.Priority = jj.Priority,
                       !.OwnerID = m["owner_id"][2],
                       !.OrganizationID = m["organization_id"][2]])

CompanyJobCodec_Decode(jj) ==
    LET m == jj.Metadata IN
    IF ~IsA(m, "company_name", "str") THEN Failure("company_name is missing or not a string")
    ELSE IF ~IsA(m, "address", "str") THEN Failure("address is missing or not a string")
    ELSE IF ~IsA(m, "owner_id", "str") THEN Failure("owner_id is missing or not a string")
    ELSE IF ~IsA(m, "organization_id", "str") THEN Failure("organization_id is missing or not a string")
    ELSE Success(DecodeBase(jj, "CompanyJob") @@
                 [OwnerID |-> m["owner_id"][2],
                  OrganizationID |-> m["organization_id"][2],
                  CompanyName |-> m["company_name"][2],
                  Address |-> m["address"][2],
                  Entry |-> IF IsA(m, "entry", "obj")
                            THEN EntryFromJSON(m["entry"][2]) ELSE ZeroEntry])

PappersJobCodec_Decode(jj) ==
    LET m == jj.Metadata IN
    IF ~IsA(m, "owner_id", "str") THEN Failure("owner_id is missing or not a string")
    ELSE IF ~IsA(m, "organization_id", "str") THEN Failure("organization_id is missing or not a string")
    ELSE Success(DecodeBase(jj, "PappersJob") @@
                 [OwnerID |-> m["owner_id"][2],
                  OrganizationID |-> m["organization_id"][2],
                  Entry |-> IF IsA(m, "entry", "obj")
                            THEN EntryFromJSON(m["entry"][2]) ELSE ZeroEntry])

\* var rawJSON string; json.Unmarshal(payload, &rawJSON): the bytes the
\* decoder goes on with
UnwrapString(payload) ==
    CASE payload[1] = "strdoc" -> payload[2]
      [] payload[1] = "str" -> <<"text", payload[2]>>
      [] payload[1] = "null" -> <<"text", "">>
      [] OTHER -> payload

\* mutant: the payload is not unwrapped
DecodeJob_NoUnwrap(payloadType, payload) ==
    LET u == Unmarshal(payload) IN
    IF ~u.ok THEN Failure("failed to unmarshal job")
    ELSE CASE payloadType = "search" -> GmapJobCodec_Decode(u.json)
           [] payloadType = "place" -> PlaceJobCodec_Decode(u.json)
           [] payloadType = "email" -> EmailJobCodec_Decode(u.json)
           [] payloadType = "bodacc" -> CompanyJobCodec_Decode(u.json)
           [] payloadType = "pappers" -> PappersJobCodec_Decode(u.json)
           [] OTHER -> Failure("invalid payload type")

DecodeJob(payloadType, payload) ==
    LET u == Unmarshal(UnwrapString(payload)) IN
    IF ~u.ok THEN Failure("failed to unmarshal job")
    ELSE CASE payloadType = "search" -> GmapJobCodec_Decode(u.json)
           [] payloadType = "place" -> PlaceJobCodec_Decode(u.json)
           [] payloadType = "email" -> EmailJobCodec_Decode(u.json)
           [] payloadType = "bodacc" -> CompanyJobCodec_Decode(u.json)
           [] payloadType = "pappers" -> PappersJobCodec_Decode(u.json)
           [] OTHER -> Failure("invalid payload type")

\* ------------------------------------------------- the jobs encoded
EntryValues == {[WebSite |-> "", Title |-> "t1"], [WebSite |-> "w1", Title |-> "t2"]}
OwnerIDs == {"", "u1"}
OrganizationIDs == {"", "o1"}
MaxDepths == {1, 10}

\* scrapemate.Job: the fields the envelope carries
JobBase ==
    [ID : {"id1"}, ParentID : {"", "par"}, Priority : {2}, URL : {"u"},
     URLParams : {<<"nil">>, <<"map", "k=v">>}, MaxRetries : {2}]

GmapJobs ==
    {b @@ [type |-> "GmapJob", MaxDepth |-> d, LangCode |-> "fr",
           ExtractEmail |-> ee, ExtractBodacc |-> eb, OwnerID |-> o,
           OrganizationID |-> g] :
       b \in JobBase, d \in MaxDepths, ee \in BOOLEAN, eb \in BOOLEAN,
       o \in OwnerIDs, g \in OrganizationIDs}

PlaceJobs ==
    {b @@ [type |-> "PlaceJob", UsageInResults |-> ur, ExtractEmail |-> ee,
           ExtractBodacc |-> eb, OwnerID |-> o, OrganizationID |-> g] :
       b \in JobBase, ur \in BOOLEAN, ee \in BOOLEAN, eb \in BOOLEAN,
       o \in OwnerIDs, g \in OrganizationIDs}

EmailJobs ==
    {b @@ [type |-> "EmailExtractJob", Entry |-> e, OwnerID |-> o,
           OrganizationID |-> g] :
       b \in JobBase, e \in EntryValues, o \in OwnerIDs, g \in OrganizationIDs}

CompanyJobs ==
    {b @@ [type |-> "CompanyJob", CompanyName |-> n, Address |-> "a1",
           OwnerID |-> o, OrganizationID |-> g, Entry |-> e] :
       b \in JobBase, n \in {"", "acme"}, e \in EntryValues, o \in OwnerIDs,
       g \in OrganizationIDs}

PappersJobs ==
    {b @@ [type |-> "PappersJob", OwnerID |-> o, OrganizationID |-> g,
           Entry |-> e] :
       b \in JobBase, e \in EntryValues, o \in OwnerIDs, g \in OrganizationIDs}

\* a job type without codec
SocieteJobs ==
    {b @@ [type |-> "SocieteJob", OwnerID |-> "u1", OrganizationID |-> "o1"] :
       b \in JobBase}

BusinessJobs ==
    GmapJobs \cup PlaceJobs \cup EmailJobs \cup CompanyJobs \cup PappersJobs
        \cup SocieteJobs

\* a job as Push and EncodeJob receive it: bare or in a jobWrapper
CodecJobs ==
    BusinessJobs \cup {[type |-> "jobWrapper", IJob |-> j] : j \in BusinessJobs}

\* Push: EncodeJob then json.Marshal
CEncode ==
    /\ cpc = "new"
    /\ LET r == EncodeJob(cjob) IN
       IF r.ok
       THEN /\ cenvelope' = Marshal(r.json)
            /\ ctype' = r.jobType
            /\ cpc' = "encoded"
       ELSE /\ cpc' = "unsupported job type"
            /\ UNCHANGED <<cenvelope, ctype>>
    /\ UNCHANGED <<cjob, cpayload, cdouble, cdecoded, ccorrupt, notcodec>>

Metadata(e) == e[2]["metadata"][2]
SetMetadata(e, m) == JObj([e[2] EXCEPT !["metadata"] = JObj(m)])

\* a row written by another writer: a metadata key is missing
DropKey(k) ==
    /\ cpc = "encoded" /\ ~ccorrupt
    /\ k \in DOMAIN Metadata(cenvelope)
    /\ cenvelope' = SetMetadata(cenvelope,
            [x \in DOMAIN Metadata(cenvelope) \ {k} |-> Metadata(cenvelope)[x]])
    /\ ccorrupt' = TRUE
    /\ UNCHANGED <<cjob, cpayload, cdouble, ctype, cdecoded, cpc, notcodec>>

\* a metadata key holds null
NullKey(k) ==
    /\ cpc = "encoded" /\ ~ccorrupt
    /\ k \in DOMAIN Metadata(cenvelope)
    /\ cenvelope' = SetMetadata(cenvelope, [Metadata(cenvelope) EXCEPT ![k] = JNull])
    /\ ccorrupt' = TRUE
    /\ UNCHANGED <<cjob, cpayload, cdouble, ctype, cdecoded, cpc, notcodec>>

\* a member of the envelope has the wrong JSON type
BreakField ==
    /\ cpc = "encoded" /\ ~ccorrupt
    /\ cenvelope' = JObj([cenvelope[2] EXCEPT !["priority"] = JStr("high")])
    /\ ccorrupt' = TRUE
    /\ UNCHANGED <<cjob, cpayload, cdouble, ctype, cdecoded, cpc, notcodec>>

\* the payload_type column names another type
Mistype(t) ==
    /\ cpc = "encoded" /\ ~ccorrupt
    /\ t # ctype
    /\ ctype' = t
    /\ ccorrupt' = TRUE
    /\ UNCHANGED <<cjob, cenvelope, cpayload, cdouble, cdecoded, cpc, notcodec>>

\* the envelope is stored as a JSON object or as a JSON string of its text
Store(dbl) ==
    /\ cpc = "encoded"
    /\ cpayload' = IF dbl THEN JStrDoc(cenvelope) ELSE cenvelope
    /\ cdouble' = dbl
    /\ cpc' = "stored"
    /\ UNCHANGED <<cjob, cenvelope, ctype, cdecoded, ccorrupt, notcodec>>

\* fetchJobs: DecodeJob(payloadType, payload)
CDecode ==
    /\ cpc = "stored"
    /\ cdecoded' = DecodeJob(ctype, cpayload)
    /\ cpc' = "decoded"
    /\ UNCHANGED <<cjob, cenvelope, cpayload, cdouble, ctype, ccorrupt, notcodec>>

MetadataKeys ==
    {"max_depth", "lang_code", "extract_email", "extract_bodacc", "owner_id",
     "organization_id", "usage_in_results", "entry", "parent_id",
     "company_name", "address"}

CodecNext ==
    \/ CEncode
    \/ \E k \in MetadataKeys : DropKey(k)
    \/ \E k \in MetadataKeys : NullKey(k)
    \/ BreakField
    \/ \E t \in JobTypes \cup {"societe"} : Mistype(t)
    \/ \E dbl \in BOOLEAN : Store(dbl)
    \/ CDecode

CodecSpecInit ==
    /\ SchedInit
    /\ WriterInit("url")
    /\ \E job \in CodecJobs : CodecInit(job)
    /\ RollupIdle
    /\ FwdInit
    /\ NoteInit
    /\ CfgIdle
    /\ RootIdle
    /\ ResIdle
    /\ ProvIdle

CodecSpec == CodecSpecInit /\ [][CodecNext]_vars

\* ====================================================================
\* Two sibling transactions of the status manager, statement by statement
\* ====================================================================
\* The parent row is in processing and waits for its last two children.
\* Each child commits its terminal status in a transaction of MarkDone or
\* MarkFailed. PostgreSQL READ COMMITTED: the UPDATE of a counter of the
\* parent row takes the row lock and waits for the holder to end; a SELECT
\* sees what is committed plus the writes of its own transaction.

\* mutant: the counter UPDATE does not wait for the row lock
CanLockRow_NoWait(t) ==
    TRUE

CanLockRow(t) ==
    rowLock \in {0, t}

\* UPDATE gmaps_jobs SET status = $1 WHERE id = <child>, then
\* UPDATE ... SET child_jobs_failed = child_jobs_failed + 1 (MarkFailed) or
\* UPDATE ... SET child_jobs_completed = child_jobs_completed + 1 (MarkDone)
\* WHERE id = <parent>
UpdateCounter(t) ==
    /\ tx[t].pc = "begin"
    /\ CanLockRow(t)
    /\ rowLock' = t
    /\ tx' = [tx EXCEPT ![t].pc = "counted"]
    /\ UNCHANGED <<parentRow, transitions, before, notrollup>>

\* SELECT child_jobs_count, child_jobs_completed, child_jobs_failed and the
\* test totalProcessed >= childCount && childCount > 0; when it holds,
\* UPDATE gmaps_jobs SET status = 'done' WHERE id = <parent>
SelectCounters(t) ==
    /\ tx[t].pc = "counted"
    /\ LET totalProcessed == parentRow.completed + parentRow.failed + 1 IN
       tx' = [tx EXCEPT ![t].pc = "checked",
                        ![t].marksDone = BudgetMet(parentRow.count, totalProcessed)]
    /\ UNCHANGED <<parentRow, rowLock, transitions, before, notrollup>>

\* tx.Commit()
CommitTx(t) ==
    /\ tx[t].pc = "checked"
    /\ parentRow' =
          [parentRow EXCEPT
             !.completed = IF tx[t].kind = "MarkDone" THEN @ + 1 ELSE @,
             !.failed = IF tx[t].kind = "MarkFailed" THEN @ + 1 ELSE @,
             !.status = IF tx[t].marksDone THEN statusDone ELSE @]
    /\ transitions' = IF tx[t].marksDone /\ parentRow.status = statusProcessing
                      THEN transitions + 1 ELSE transitions
    /\ rowLock' = IF rowLock = t THEN 0 ELSE rowLock
    /\ tx' = [tx EXCEPT ![t].pc = "committed"]
    /\ UNCHANGED <<before, notrollup>>

\* a statement or the commit fails: defer tx.Rollback()
RollbackTx(t) ==
    /\ tx[t].pc \in {"counted", "checked"}
    /\ rowLock' = IF rowLock = t THEN 0 ELSE rowLock
    /\ tx' = [tx EXCEPT ![t].pc = "rolled back"]
    /\ UNCHANGED <<parentRow, transitions, before, notrollup>>

RollupNext ==
    \E t \in Txs :
       \/ UpdateCounter(t)
       \/ SelectCounters(t)
       \/ CommitTx(t)
       \/ RollbackTx(t)

RollupSpecInit ==
    /\ SchedInit
    /\ WriterInit("url")
    /\ CodecInit(NoCodecJob)
    /\ \E c \in 0..MaxEarlier, f \in 0..MaxEarlier, k \in [Txs -> TxKinds] :
          /\ c + f <= MaxEarlier
          /\ RollupInit(c, f, k)
    /\ FwdInit
    /\ NoteInit
    /\ CfgIdle
    /\ RootIdle
    /\ ResIdle
    /\ ProvIdle

RollupSpec == RollupSpecInit /\ [][RollupNext]_vars

\* ====================================================================
\* Jobs: the lease loop, the forwarder goroutine and their channels
\* ====================================================================
\* fetchJobs sends on p.jobc and p.errc and closes both when it returns
\* (the deferred calls run in reverse order: p.errc first, then p.jobc).
\* The forwarder started by Jobs selects on ctx.Done(), p.errc and p.jobc;
\* a select with several ready cases takes any of them.

\* mutant: the doubled delay is not capped
NextDelay_NoCap(d) ==
    d * factor

\* currentDelay = currentDelay * factor, at most maxDelay
NextDelay(d) ==
    IF d * factor > maxDelay THEN maxDelay ELSE d * factor

\* db.QueryContext, rows.Scan, DecodeJob, rows.Err and rows.Close succeed
\* with n rows
FetchQuery(n) ==
    /\ fpc = "top"
    /\ ~jctx
    /\ fetched + n <= MaxFetched
    /\ n = 0 => emptyPolls < MaxEmptyPolls
    /\ fetched' = fetched + n
    /\ tosend' = [i \in 1..n |-> fetched + i]
    /\ fpc' = IF n > 0 THEN "send" ELSE "sleep"
    /\ UNCHANGED <<perrc, perrcClosed, pjobc, pjobcClosed, sentErr, fwpc,
                   fwjob, errc, outc, errSeen, jctx, currentDelay,
                   emptyPolls,
                   notfwd>>

\* one of them fails: p.errc <- err; return
FetchError(err) ==
    /\ fpc = "top"
    /\ ~jctx
    /\ perrc' = Append(perrc, err)
    /\ sentErr' = err
    /\ fpc' = "return"
    /\ UNCHANGED <<perrcClosed, pjobc, pjobcClosed, fetched, tosend, fwpc,
                   fwjob, errc, outc, errSeen, jctx, currentDelay,
                   emptyPolls,
                   notfwd>>

\* case p.jobc <- job
FetchSend ==
    /\ fpc = "send"
    /\ Len(pjobc) < JobcCap
    /\ pjobc' = Append(pjobc, Head(tosend))
    /\ tosend' = Tail(tosend)
    /\ fpc' = IF Tail(tosend) = <<>> THEN "top" ELSE "send"
    /\ currentDelay' = IF Tail(tosend) = <<>> THEN baseDelay ELSE currentDelay
    /\ emptyPolls' = IF Tail(tosend) = <<>> THEN 0 ELSE emptyPolls
    /\ UNCHANGED <<perrc, perrcClosed, pjobcClosed, fetched, sentErr, fwpc,
                   fwjob, errc, outc, errSeen, jctx, notfwd>>

\* case <-time.After(currentDelay)
FetchSleep ==
    /\ fpc = "sleep"
    /\ fpc' = "top"
    /\ currentDelay' = NextDelay(currentDelay)
    /\ emptyPolls' = emptyPolls + 1
    /\ UNCHANGED <<perrc, perrcClosed, pjobc, pjobcClosed, fetched, tosend,
                   sentErr, fwpc, fwjob, errc, outc, errSeen, jctx, notfwd>>

\* case <-ctx.Done(): return
FetchCtxDone ==
    /\ fpc \in {"top", "send", "sleep"}
    /\ jctx
    /\ fpc' = "return"
    /\ UNCHANGED <<perrc, perrcClosed, pjobc, pjobcClosed, fetched, tosend,
                   sentErr, fwpc, fwjob, errc, outc, errSeen, jctx, currentDelay,
                   emptyPolls,
                   notfwd>>

\* defer close(p.errc)
FetchCloseErrc ==
    /\ fpc = "return"
    /\ perrcClosed' = TRUE
    /\ fpc' = "errc closed"
    /\ UNCHANGED <<perrc, pjobc, pjobcClosed, fetched, tosend, sentErr, fwpc,
                   fwjob, errc, outc, errSeen, jctx, currentDelay,
                   emptyPolls,
                   notfwd>>

\* defer close(p.jobc)
FetchCloseJobc ==
    /\ fpc = "errc closed"
    /\ pjobcClosed' = TRUE
    /\ fpc' = "done"
    /\ UNCHANGED <<perrc, perrcClosed, pjobc, fetched, tosend, sentErr, fwpc,
                   fwjob, errc, outc, errSeen, jctx, currentDelay,
                   emptyPolls,
                   notfwd>>

\* forwarder, either select: case <-ctx.Done(): return
FwdCtxDone ==
    /\ fwpc \in {"select", "out"}
    /\ jctx
    /\ fwpc' = "exited"
    /\ UNCHANGED <<perrc, perrcClosed, pjobc, pjobcClosed, fetched, tosend,
                   fpc, sentErr, fwjob, errc, outc, errSeen, jctx, currentDelay,
                   emptyPolls,
                   notfwd>>

\* forwarder: case err := <-p.errc: errc <- err; return
\* (a closed and drained channel delivers the zero value)
FwdErr ==
    /\ fwpc = "select"
    /\ perrc # <<>> \/ perrcClosed
    /\ errc' = Append(errc, IF perrc # <<>> THEN Head(perrc) ELSE "nil")
    /\ perrc' = IF perrc # <<>> THEN Tail(perrc) ELSE perrc
    /\ fwpc' = "exited"
    /\ UNCHANGED <<perrcClosed, pjobc, pjobcClosed, fetched, tosend, fpc,
                   sentErr, fwjob, outc, errSeen, jctx, currentDelay,
                   emptyPolls,
                   notfwd>>

\* forwarder: case job, ok := <-p.jobc, ok
FwdJob ==
    /\ fwpc = "select"
    /\ pjobc # <<>>
    /\ fwjob' = Head(pjobc)
    /\ pjobc' = Tail(pjobc)
    /\ fwpc' = "out"
    /\ UNCHANGED <<perrc, perrcClosed, pjobcClosed, fetched, tosend, fpc,
                   sentErr, errc, outc, errSeen, jctx, currentDelay,
                   emptyPolls,
                   notfwd>>

\* forwarder: case job, ok := <-p.jobc, !ok: return
FwdJobcClosed ==
    /\ fwpc = "select"
    /\ pjobc = <<>> /\ pjobcClosed
    /\ fwpc' = "exited"
    /\ UNCHANGED <<perrc, perrcClosed, pjobc, pjobcClosed, fetched, tosend,
                   fpc, sentErr, fwjob, errc, outc, errSeen, jctx, currentDelay,
                   emptyPolls,
                   notfwd>>

\* forwarder: case outc <- wrappedJob, the consumer receives
FwdOut ==
    /\ fwpc = "out"
    /\ outc' = Append(outc, fwjob)
    /\ fwjob' = NoJob
    /\ fwpc' = "select"
    /\ UNCHANGED <<perrc, perrcClosed, pjobc, pjobcClosed, fetched, tosend,
                   fpc, sentErr, errc, errSeen, jctx, currentDelay,
                   emptyPolls,
                   notfwd>>

\* the consumer receives from the error channel returned by Jobs
ConsumeErr ==
    /\ errc # <<>>
    /\ errSeen' = Append(errSeen, Head(errc))
    /\ errc' = Tail(errc)
    /\ UNCHANGED <<perrc, perrcClosed, pjobc, pjobcClosed, fetched, tosend,
                   fpc, sentErr, fwpc, fwjob, outc, jctx, currentDelay,
                   emptyPolls,
                   notfwd>>

\* the context given to Jobs is cancelled
JobsCancel ==
    /\ ~jctx
    /\ jctx' = TRUE
    /\ UNCHANGED <<perrc, perrcClosed, pjobc, pjobcClosed, fetched, tosend,
                   fpc, sentErr, fwpc, fwjob, errc, outc, errSeen, currentDelay,
                   emptyPolls,
                   notfwd>>

FwdNext ==
    \/ \E n \in 0..LeaseLimit : FetchQuery(n)
    \/ \E err \in LeaseErrors : FetchError(err)
    \/ FetchSend
    \/ FetchSleep
    \/ FetchCtxDone
    \/ FetchCloseErrc
    \/ FetchCloseJobc
    \/ FwdCtxDone
    \/ FwdErr
    \/ FwdJob
    \/ FwdJobcClosed
    \/ FwdOut
    \/ ConsumeErr
    \/ JobsCancel

FwdSpecInit ==
    /\ SchedInit
    /\ WriterInit("url")
    /\ CodecInit(NoCodecJob)
    /\ RollupIdle
    /\ FwdInit
    /\ NoteInit
    /\ CfgIdle
    /\ RootIdle
    /\ ResIdle
    /\ ProvIdle

FwdSpec == FwdSpecInit /\ [][FwdNext]_vars

\* ====================================================================
\* Notifications and their outcomes
\* ====================================================================
\* The calls to the revalidation and the job completion endpoints end in
\* one of the outcomes below; what the code does with the outcome is a log
\* line or nothing. The writer and one process of the scheduler run as
\* modelled above; the scheduler is seeded once Run has returned on a closed
\* channel without a result (the two work on different tables and share no
\* variable).

\* mutant: a completion call that does not succeed marks the job failed
CompletionReturn_FailsJob(j, o) ==
    /\ notified[j] > 0
    /\ lastOutcome' = [kind |-> "completion", outcome |-> o]
    /\ status' = IF o \in {"http failure", "timeout"}
                 THEN [status EXCEPT ![j] = statusFailed] ELSE status
    /\ UNCHANGED <<parent_id, child_jobs_count, child_jobs_completed,
                   child_jobs_failed, created_at, clock, becameDone, objvars, leasevars,
                   workervars, async, pendingPush, notified, delivered,
                   orphaned, crashes, pushedOver, writervars, codecvars,
                   rollupvars, fwdvars, cfgvars, rootvars, resvars, provvars>>

\* CallJobCompletionAPIAsync(ctx, j, payload) was called: it returns at once
\* when jobCompletionURL is empty, else its goroutine posts and logs
CompletionReturn(j, o) ==
    /\ notified[j] > 0
    /\ lastOutcome' = [kind |-> "completion", outcome |-> o]
    /\ UNCHANGED notnote

\* jobWrapper.Process called CallRevalidationAPI(ctx, gmapJob.OwnerID) after
\* the MarkDone of the search job j: skipped, or posted and logged
WrapperRevalidationReturn(j, o) ==
    /\ variant[j] = "search"
    /\ j \in delivered
    /\ status[j] \in {statusProcessing, statusDone}
    /\ lastOutcome' = [kind |-> "revalidation of the owner", outcome |-> o]
    /\ UNCHANGED notnote

\* notifyRevalidation of the last committed batch: nothing is started when
\* revalidationAPIURL is empty, else a goroutine callRevalidationAPI(ctx, u)
\* posts and returns
WriterRevalidationReturn(u, o) ==
    /\ lastFlush.err = "nil"
    /\ \E i \in 1..Len(lastFlush.batch) : lastFlush.batch[i].UserID = u
    /\ u # ""
    /\ IF o = "skipped" THEN revalidationAPIURL = ""
       ELSE lastFlush.calls[u] > 0
    /\ lastOutcome' = [kind |-> "revalidation of the tenant", outcome |-> o]
    /\ UNCHANGED notnote

\* the results sent to the writer here: one link of one organization, with
\* and without a user
NotifyEntries == {e \in Entries : e.Link = "l1" /\ e.OrganizationID = "o1"}

NotifyNext ==
    \/ \E e \in NotifyEntries, qok \in BOOLEAN, sok \in BOOLEAN : Receive(e, qok, sok)
    \/ ReceiveInvalid
    \/ \E sok \in BOOLEAN : InClosed(sok)
    \/ \E sok \in BOOLEAN : Tick(sok)
    \/ Cancel
    \/ \E sok \in BOOLEAN : OnCtxDone(sok)
    \/ (rwpc = "returned" /\ received = 0 /\ ~ctxDone) /\ SeedPush
    \/ \E ok \in BOOLEAN : Step("p1", ok)
    \/ \E t \in async : AsyncPush(t)
    \/ \E j \in Ids, o \in Outcomes : CompletionReturn(j, o)
    \/ \E j \in Ids, o \in Outcomes : WrapperRevalidationReturn(j, o)
    \/ \E u \in UserIDs, o \in Outcomes : WriterRevalidationReturn(u, o)

NotifySpecInit ==
    /\ SchedInit
    /\ \E url \in {"", "url"} : WriterInit(url)
    /\ CodecInit(NoCodecJob)
    /\ RollupIdle
    /\ FwdInit
    /\ NoteInit
    /\ CfgIdle
    /\ RootIdle
    /\ ResIdle
    /\ ProvIdle

NotifySpec == NotifySpecInit /\ [][NotifyNext]_vars

\* ====================================================================
\* ParseConfig
\* ====================================================================
\* Go's builtin min
min(a, b) == IF a < b THEN a ELSE b

\* the default of the flag -c: min(runtime.NumCPU()/2, 1)
DefaultConcurrency(numCPU) == min(numCPU \div 2, 1)

FlagValue(f, default) == IF f.given THEN f.value ELSE default

\* the flag definitions and flag.Parse()
FlagParse ==
    /\ cfgpc = "start"
    /\ cfg' = [cfg EXCEPT
                 !.Concurrency = FlagValue(argv.c, DefaultConcurrency(argv.numCPU)),
                 !.MaxDepth = FlagValue(argv.depth, 10),
                 !.Zoom = FlagValue(argv.zoom, 15),
                 !.Dsn = argv.dsn,
                 !.ProduceOnly = argv.produce]
    /\ cfgpc' = "parsed"
    /\ UNCHANGED <<argv, notcfg>>

\* if cfg.Concurrency < 1
PanicConcurrency ==
    /\ cfgpc = "parsed"
    /\ cfg.Concurrency < 1
    /\ cfgpc' = "Concurrency must be greater than 0"
    /\ UNCHANGED <<argv, cfg, notcfg>>

\* if cfg.MaxDepth < 1
PanicMaxDepth ==
    /\ cfgpc = "parsed"
    /\ cfg.Concurrency >= 1
    /\ cfg.MaxDepth < 1
    /\ cfgpc' = "MaxDepth must be greater than 0"
    /\ UNCHANGED <<argv, cfg, notcfg>>

\* if cfg.Zoom < 0 || cfg.Zoom > 21
PanicZoom ==
    /\ cfgpc = "parsed"
    /\ cfg.Concurrency >= 1 /\ cfg.MaxDepth >= 1
    /\ cfg.Zoom < 0 \/ cfg.Zoom > 21
    /\ cfgpc' = "Zoom must be between 0 and 21"
    /\ UNCHANGED <<argv, cfg, notcfg>>

\* if cfg.Dsn == ""
PanicDsn ==
    /\ cfgpc = "parsed"
    /\ cfg.Concurrency >= 1 /\ cfg.MaxDepth >= 1
    /\ cfg.Zoom >= 0 /\ cfg.Zoom <= 21
    /\ cfg.Dsn = ""
    /\ cfgpc' = "Dsn must be provided"
    /\ UNCHANGED <<argv, cfg, notcfg>>

\* the run mode (RunModeDatabase = 1, RunModeDatabaseProduce = 2); return &cfg
ReturnConfig ==
    /\ cfgpc = "parsed"
    /\ cfg.Concurrency >= 1 /\ cfg.MaxDepth >= 1
    /\ cfg.Zoom >= 0 /\ cfg.Zoom <= 21
    /\ cfg.Dsn # ""
    /\ cfg' = [cfg EXCEPT !.RunMode = IF cfg.ProduceOnly THEN 2 ELSE 1]
    /\ cfgpc' = "returned"
    /\ UNCHANGED <<argv, notcfg>>

CfgNext ==
    \/ FlagParse
    \/ PanicConcurrency
    \/ PanicMaxDepth
    \/ PanicZoom
    \/ PanicDsn
    \/ ReturnConfig

\* the command lines: each integer flag absent or around its limits
CommandLines ==
    [numCPU : 1..MaxCPU,
     c : {NotGiven, Given(0), Given(2)},
     depth : {NotGiven, Given(0)},
     zoom : {NotGiven, Given(-1), Given(22)},
     dsn : {"", "dsn"},
     produce : BOOLEAN]

CfgSpecInit ==
    /\ SchedInit
    /\ WriterInit("url")
    /\ CodecInit(NoCodecJob)
    /\ RollupIdle
    /\ FwdInit
    /\ NoteInit
    /\ \E a \in CommandLines : CfgInit(a)
    /\ RootIdle
    /\ ResIdle
    /\ ProvIdle

CfgSpec == CfgSpecInit /\ [][CfgNext]_vars

\* ====================================================================
\* getRootParentJobID: the walk to the root of a lineage
\* ====================================================================
\* getParentJobID: "" for a NULL parent_id and for sql.ErrNoRows, else the id
getParentJobID(g, jobID) ==
    IF g[jobID] \in {NoRow, NoJob} THEN NoJob ELSE g[jobID]

\* mutant: the visited set is never consulted
Visited_Never(set, id) ==
    FALSE

\* visitedJobs[currentJobID]
Visited(set, id) ==
    id \in set

\* if visitedJobs[currentJobID] { return "", circular reference }
RootCycle ==
    /\ rootret.err = "running"
    /\ Visited(visitedJobs, currentJobID)
    /\ rootret' = [id |-> NoJob, err |-> "circular"]
    /\ UNCHANGED <<notroot, rparent, rjobID, currentJobID, visitedJobs>>

\* getParentJobID returns an error other than sql.ErrNoRows
RootQueryError ==
    /\ rootret.err = "running"
    /\ ~Visited(visitedJobs, currentJobID)
    /\ visitedJobs' = visitedJobs \cup {currentJobID}
    /\ rootret' = [id |-> NoJob, err |-> "queryErr"]
    /\ UNCHANGED <<notroot, rparent, rjobID, currentJobID>>

\* parentID == "": return currentJobID, nil
RootReturn ==
    /\ rootret.err = "running"
    /\ ~Visited(visitedJobs, currentJobID)
    /\ getParentJobID(rparent, currentJobID) = NoJob
    /\ visitedJobs' = visitedJobs \cup {currentJobID}
    /\ rootret' = [id |-> currentJobID, err |-> "nil"]
    /\ UNCHANGED <<notroot, rparent, rjobID, currentJobID>>

\* currentJobID = parentID
RootFollow ==
    /\ rootret.err = "running"
    /\ ~Visited(visitedJobs, currentJobID)
    /\ getParentJobID(rparent, currentJobID) # NoJob
    /\ visitedJobs' = visitedJobs \cup {currentJobID}
    /\ currentJobID' = getParentJobID(rparent, currentJobID)
    /\ UNCHANGED <<notroot, rparent, rjobID, rootret>>

RootNext ==
    \/ RootCycle
    \/ RootQueryError
    \/ RootReturn
    \/ RootFollow

\* every parent_id graph over RootIds and every start id
ParentGraphs == [RootIds -> {NoRow, NoJob} \cup RootIds]

RootSpecInit ==
    /\ SchedInit
    /\ WriterInit("url")
    /\ CodecInit(NoCodecJob)
    /\ RollupIdle
    /\ FwdInit
    /\ NoteInit
    /\ CfgIdle
    /\ \E g \in ParentGraphs, jobID \in RootIds : RootInit(g, jobID)
    /\ ResIdle
    /\ ProvIdle

\* the loop runs on until it returns
RootSpec == RootSpecInit /\ [][RootNext]_vars /\ WF_vars(RootNext)

\* ====================================================================
\* Run: the tenant and the parent_id of a result's row
\* ====================================================================
\* the job types whose Process returns an entry
ResultJobTypes ==
    {"GmapJob", "PlaceJob", "EmailExtractJob", "SocieteJob", "CompanyJob", "PappersJob"}

\* the types the if / else-if chain on actualJob has a branch for
TypedCases == {"GmapJob", "PlaceJob", "EmailExtractJob", "SocieteJob"}

\* parentJobID when getRootParentJobID returned an error
FallbackParent(job) ==
    IF job.type \in {"GmapJob", "SocieteJob"} THEN job.ID ELSE job.ParentID

\* actualJob has no branch: userID, organizationID and parentJobID keep
\* their zero value
ResolveNoCase ==
    /\ ~resEntry.built
    /\ resJob.type \notin TypedCases
    /\ resEntry' = [built |-> TRUE, UserID |-> "", OrganizationID |-> "",
                    ParentID |-> NoJob]
    /\ UNCHANGED <<notres, resJob>>

\* a branch of the chain, once getRootParentJobID(ctx, job.GetID()) returned
ResolveEntry ==
    /\ ~resEntry.built
    /\ resJob.type \in TypedCases
    /\ rootret.err # "running"
    /\ resEntry' = [built |-> TRUE, UserID |-> resJob.OwnerID,
                    OrganizationID |-> resJob.OrganizationID,
                    ParentID |-> IF rootret.err = "nil" THEN rootret.id
                                 ELSE FallbackParent(resJob)]
    /\ UNCHANGED <<notres, resJob>>

ResNext ==
    \/ resJob.type \in TypedCases /\ RootCycle
    \/ resJob.type \in TypedCases /\ RootQueryError
    \/ resJob.type \in TypedCases /\ RootReturn
    \/ resJob.type \in TypedCases /\ RootFollow
    \/ ResolveNoCase
    \/ ResolveEntry

\* the jobs of a store with the parent_id graph g: the job's ParentID field
\* is the parent_id of its row
ResultJobs(g) ==
    {[type |-> t, wrapped |-> w, ID |-> id, OwnerID |-> o, OrganizationID |-> "o1",
      ParentID |-> IF g[id] \in RootIds THEN g[id] ELSE NoJob] :
        t \in ResultJobTypes, w \in BOOLEAN, id \in RootIds, o \in {"u1", "u2"}}

ResSpecInit ==
    /\ SchedInit
    /\ WriterInit("url")
    /\ CodecInit(NoCodecJob)
    /\ RollupIdle
    /\ FwdInit
    /\ NoteInit
    /\ CfgIdle
    /\ \E g \in ParentGraphs : \E job \in ResultJobs(g) :
          RootInit(g, job.ID) /\ ResInit(job)
    /\ ProvIdle

ResSpec == ResSpecInit /\ [][ResNext]_vars

\* ====================================================================
\* provider: the lease loop over rows, and Jobs called more than once
\* ====================================================================
\* The rows are ordered by their number (priority, created_at); every call
\* of Jobs is made with the same context.

\* case p.jobc and the forwarders of all calls: the jobs a call delivered
Wrapped(job) == [type |-> "jobWrapper", IJob |-> job]

\* the rows the lease statement flips: the lowest LeaseLimit rows in new
LeaseRows(tbl) ==
    {r \in Rows : /\ tbl[r] = statusNew
                  /\ Cardinality({q \in Rows : tbl[q] = statusNew /\ q < r}) < LeaseLimit}

RECURSIVE Ascending(_)
Ascending(S) ==
    IF S = {} THEN <<>>
    ELSE LET m == CHOOSE x \in S : \A y \in S : x <= y
         IN <<m>> \o Ascending(S \ {m})

\* Jobs(ctx): the lease loop is started unless p.started, and a forwarder
\* goroutine with its own channels is started
JobsCall(c) ==
    /\ fw[c].pc = "none"
    /\ \A d \in Callers : d < c => fw[d].pc # "none"
    /\ started' = TRUE
    /\ fetchers' = IF started THEN fetchers ELSE fetchers + 1
    /\ lpc' = IF started THEN lpc ELSE "top"
    /\ fw' = [fw EXCEPT ![c].pc = "select"]
    /\ UNCHANGED <<rowsTbl, poisoned, rowsCur, jobsSlice, batch, leases,
                   lerr, jobcQ, jobcClosedQ, errcQ, errcClosedQ, pctx,
                   notprov>>

\* db.QueryContext succeeds: the statement has flipped its rows
LeaseQuery ==
    /\ lpc = "top"
    /\ ~pctx
    /\ leases < MaxLeases
    /\ leases' = leases + 1
    /\ batch' = LeaseRows(rowsTbl)
    /\ rowsTbl' = [r \in Rows |-> IF r \in LeaseRows(rowsTbl) THEN statusQueued
                                  ELSE rowsTbl[r]]
    /\ rowsCur' = Ascending(LeaseRows(rowsTbl))
    /\ lpc' = "scan"
    /\ UNCHANGED <<poisoned, started, fetchers, jobsSlice, lerr, jobcQ,
                   jobcClosedQ, errcQ, errcClosedQ, fw, pctx, notprov>>

\* db.QueryContext fails: p.errc <- err; return
LeaseQueryError ==
    /\ lpc = "top"
    /\ ~pctx
    /\ leases < MaxLeases
    /\ leases' = leases + 1
    /\ batch' = {}
    /\ errcQ' = Append(errcQ, "QueryContext")
    /\ lerr' = "QueryContext"
    /\ lpc' = "return"
    /\ UNCHANGED <<rowsTbl, poisoned, started, fetchers, rowsCur,
                   jobsSlice, jobcQ, jobcClosedQ, errcClosedQ, fw, pctx,
                   notprov>>

\* rows.Next, Scan and DecodeJob of a row: jobs = append(jobs, job)
ScanDecode ==
    /\ lpc = "scan"
    /\ rowsCur # <<>>
    /\ Head(rowsCur) \notin poisoned
    /\ jobsSlice' = Append(jobsSlice, Head(rowsCur))
    /\ rowsCur' = Tail(rowsCur)
    /\ UNCHANGED <<rowsTbl, poisoned, started, fetchers, lpc, batch,
                   leases, lerr, jobcQ, jobcClosedQ, errcQ, errcClosedQ,
                   fw, pctx, notprov>>

\* mutant: the error is sent and the scan goes on with the next row
ScanDecodeError_GoesOn ==
    /\ lpc = "scan"
    /\ rowsCur # <<>>
    /\ Head(rowsCur) \in poisoned
    /\ errcQ' = IF errcQ = <<>> THEN <<"DecodeJob">> ELSE errcQ
    /\ lerr' = "DecodeJob"
    /\ rowsCur' = Tail(rowsCur)
    /\ UNCHANGED <<rowsTbl, poisoned, started, fetchers, lpc, jobsSlice, batch,
                   leases, jobcQ, jobcClosedQ, errcClosedQ, fw, pctx, notprov>>

\* DecodeJob returns an error: p.errc <- err; return
ScanDecodeError ==
    /\ lpc = "scan"
    /\ rowsCur # <<>>
    /\ Head(rowsCur) \in poisoned
    /\ errcQ' = Append(errcQ, "DecodeJob")
    /\ lerr' = "DecodeJob"
    /\ lpc' = "return"
    /\ UNCHANGED <<rowsTbl, poisoned, started, fetchers, rowsCur,
                   jobsSlice, batch, leases, jobcQ, jobcClosedQ,
                   errcClosedQ, fw, pctx, notprov>>

\* rows.Next returns false, rows.Err and rows.Close return nil
ScanEnd ==
    /\ lpc = "scan"
    /\ rowsCur = <<>>
    /\ lpc' = IF jobsSlice # <<>> THEN "send" ELSE "sleep"
    /\ UNCHANGED <<rowsTbl, poisoned, started, fetchers, rowsCur,
                   jobsSlice, batch, leases, lerr, jobcQ, jobcClosedQ,
                   errcQ, errcClosedQ, fw, pctx, notprov>>

\* case p.jobc <- job; after the last one jobs = jobs[:0]
SendToJobc ==
    /\ lpc = "send"
    /\ Len(jobcQ) < JobcCap
    /\ jobcQ' = Append(jobcQ, Head(jobsSlice))
    /\ jobsSlice' = Tail(jobsSlice)
    /\ lpc' = IF Tail(jobsSlice) = <<>> THEN "top" ELSE "send"
    /\ UNCHANGED <<rowsTbl, poisoned, started, fetchers, rowsCur, batch,
                   leases, lerr, jobcClosedQ, errcQ, errcClosedQ, fw, pctx,
                   notprov>>

\* case <-time.After(currentDelay)
LeaseSleep ==
    /\ lpc = "sleep"
    /\ lpc' = "top"
    /\ batch' = {}
    /\ UNCHANGED <<rowsTbl, poisoned, started, fetchers, rowsCur,
                   jobsSlice, leases, lerr, jobcQ, jobcClosedQ, errcQ,
                   errcClosedQ, fw, pctx, notprov>>

\* case <-ctx.Done(): return
LeaseCtxDone ==
    /\ lpc \in {"top", "send", "sleep"}
    /\ pctx
    /\ lpc' = "return"
    /\ UNCHANGED <<rowsTbl, poisoned, started, fetchers, rowsCur,
                   jobsSlice, batch, leases, lerr, jobcQ, jobcClosedQ,
                   errcQ, errcClosedQ, fw, pctx, notprov>>

\* defer close(p.errc)
CloseErrc ==
    /\ lpc = "return"
    /\ errcClosedQ' = TRUE
    /\ lpc' = "errc closed"
    /\ UNCHANGED <<rowsTbl, poisoned, started, fetchers, rowsCur,
                   jobsSlice, batch, leases, lerr, jobcQ, jobcClosedQ,
                   errcQ, fw, pctx, notprov>>

\* defer close(p.jobc)
CloseJobc ==
    /\ lpc = "errc closed"
    /\ jobcClosedQ' = TRUE
    /\ lpc' = "done"
    /\ UNCHANGED <<rowsTbl, poisoned, started, fetchers, rowsCur,
                   jobsSlice, batch, leases, lerr, jobcQ, errcQ,
                   errcClosedQ, fw, pctx, notprov>>

\* forwarder of call c, either select: case <-ctx.Done(): return
ForwarderCtxDone(c) ==
    /\ fw[c].pc \in {"select", "out"}
    /\ pctx
    /\ fw' = [fw EXCEPT ![c].pc = "exited"]
    /\ UNCHANGED <<rowsTbl, poisoned, started, fetchers, lpc, rowsCur,
                   jobsSlice, batch, leases, lerr, jobcQ, jobcClosedQ,
                   errcQ, errcClosedQ, pctx, notprov>>

\* case err := <-p.errc: errc <- err; return (a closed and drained channel
\* delivers the zero value)
ForwarderErr(c) ==
    /\ fw[c].pc = "select"
    /\ errcQ # <<>> \/ errcClosedQ
    /\ fw' = [fw EXCEPT ![c].pc = "exited",
                        ![c].errc = Append(@, IF errcQ # <<>> THEN Head(errcQ) ELSE "nil")]
    /\ errcQ' = IF errcQ # <<>> THEN Tail(errcQ) ELSE errcQ
    /\ UNCHANGED <<rowsTbl, poisoned, started, fetchers, lpc, rowsCur,
                   jobsSlice, batch, leases, lerr, jobcQ, jobcClosedQ,
                   errcClosedQ, pctx, notprov>>

\* mutant: the job is read and left in the channel
ForwarderJob_Peek(c) ==
    /\ fw[c].pc = "select"
    /\ jobcQ # <<>>
    /\ fw' = [fw EXCEPT ![c].pc = "out", ![c].job = Wrapped(Head(jobcQ))]
    /\ UNCHANGED <<rowsTbl, poisoned, started, fetchers, lpc, rowsCur, jobsSlice,
                   batch, leases, lerr, jobcQ, jobcClosedQ, errcQ, errcClosedQ,
                   pctx, notprov>>

\* case job, ok := <-p.jobc, ok: the job is wrapped
ForwarderJob(c) ==
    /\ fw[c].pc = "select"
    /\ jobcQ # <<>>
    /\ fw' = [fw EXCEPT ![c].pc = "out", ![c].job = Wrapped(Head(jobcQ))]
    /\ jobcQ' = Tail(jobcQ)
    /\ UNCHANGED <<rowsTbl, poisoned, started, fetchers, lpc, rowsCur,
                   jobsSlice, batch, leases, lerr, jobcClosedQ, errcQ,
                   errcClosedQ, pctx, notprov>>

\* case job, ok := <-p.jobc, !ok: return
ForwarderJobcClosed(c) ==
    /\ fw[c].pc = "select"
    /\ jobcQ = <<>> /\ jobcClosedQ
    /\ fw' = [fw EXCEPT ![c].pc = "exited"]
    /\ UNCHANGED <<rowsTbl, poisoned, started, fetchers, lpc, rowsCur,
                   jobsSlice, batch, leases, lerr, jobcQ, jobcClosedQ,
                   errcQ, errcClosedQ, pctx, notprov>>

\* case outc <- wrappedJob: a worker receives from the channel of call c
ForwarderOut(c) ==
    /\ fw[c].pc = "out"
    /\ fw' = [fw EXCEPT ![c].pc = "select", ![c].job = NoWrapped,
                        ![c].outc = Append(@, fw[c].job)]
    /\ UNCHANGED <<rowsTbl, poisoned, started, fetchers, lpc, rowsCur,
                   jobsSlice, batch, leases, lerr, jobcQ, jobcClosedQ,
                   errcQ, errcClosedQ, pctx, notprov>>

\* the context given to Jobs is cancelled
ProvCancel ==
    /\ ~pctx
    /\ started
    /\ pctx' = TRUE
    /\ UNCHANGED <<rowsTbl, poisoned, started, fetchers, lpc, rowsCur,
                   jobsSlice, batch, leases, lerr, jobcQ, jobcClosedQ,
                   errcQ, errcClosedQ, fw, notprov>>

\* the steps of the goroutines
ProvRun ==
    \/ LeaseQuery
    \/ ScanDecode
    \/ ScanDecodeError
    \/ ScanEnd
    \/ SendToJobc
    \/ LeaseSleep
    \/ LeaseCtxDone
    \/ CloseErrc
    \/ CloseJobc
    \/ \E c \in Callers : ForwarderCtxDone(c)
    \/ \E c \in Callers : ForwarderErr(c)
    \/ \E c \in Callers : ForwarderJob(c)
    \/ \E c \in Callers : ForwarderJobcClosed(c)
    \/ \E c \in Callers : ForwarderOut(c)

ProvNext ==
    \/ \E c \in Callers : JobsCall(c)
    \/ LeaseQuery
    \/ LeaseQueryError
    \/ ScanDecode
    \/ ScanDecodeError
    \/ ScanEnd
    \/ SendToJobc
    \/ LeaseSleep
    \/ LeaseCtxDone
    \/ CloseErrc
    \/ CloseJobc
    \/ \E c \in Callers : ForwarderCtxDone(c)
    \/ \E c \in Callers : ForwarderErr(c)
    \/ \E c \in Callers : ForwarderJob(c)
    \/ \E c \in Callers : ForwarderJobcClosed(c)
    \/ \E c \in Callers : ForwarderOut(c)
    \/ ProvCancel

ProvSpecInit ==
    /\ SchedInit
    /\ WriterInit("url")
    /\ CodecInit(NoCodecJob)
    /\ RollupIdle
    /\ FwdInit
    /\ NoteInit
    /\ CfgIdle
    /\ RootIdle
    /\ ResIdle
    /\ \E bad \in SUBSET Rows : ProvInit(bad)

\* the goroutines run as long as one of them can take a step
ProvSpec == ProvSpecInit /\ [][ProvNext]_vars /\ WF_vars(ProvRun)

\* ====================================================================
\* Properties
\* ====================================================================
Kids(j) == {c \in Ids : status[c] # absent /\ parent_id[c] = j}
Terminal(j) == status[j] \in {statusDone, statusFailed}
Processed(j) == child_jobs_completed[j] + child_jobs_failed[j]

RECURSIVE Ancestors(_, _, _)
Ancestors(par, d, n) ==
    IF n = 0 \/ par[d] = NoJob THEN {}
    ELSE {par[d]} \cup Ancestors(par, par[d], n - 1)

\* C1: the completion notification is started at most once for every root
\* job, whatever the interleaving of lease, child insertion, Push, MarkDone
\* and MarkFailed.
C1_NotifiedAtMostOnce ==
    \A r \in Ids : notified[r] <= 1

\* a root with children was notified by the rollup of a child
C1_Witness ==
    \E r \in Ids : /\ parent_id[r] = NoJob
                   /\ child_jobs_count[r] = 2
                   /\ notified[r] = 1

\* C2: whenever the completion notification is started for a root, the root
\* is committed as done and every descendant row of it is done or failed.
C2_NotifiedOnlyWhenTreeDone ==
    [][\A r \in Ids :
          notified'[r] > notified[r] =>
             /\ status'[r] = statusDone
             /\ \A d \in Ids :
                   (status'[d] # absent /\ r \in Ancestors(parent_id', d, MaxJobs))
                      => status'[d] \in {statusDone, statusFailed}]_vars

\* C3: with every job processed and every goroutine scheduled, a node whose
\* children are all terminal leaves processing for done, and every root that
\* did not fail itself ends done with its notification started.
C3_TreeCompletes ==
    /\ \A j \in Ids :
          (/\ status[j] = statusProcessing
           /\ child_jobs_count[j] > 0
           /\ Cardinality(Kids(j)) = child_jobs_count[j]
           /\ \A c \in Kids(j) : Terminal(c))
             ~> (status[j] = statusDone)
    /\ \A r \in Ids :
          (status[r] # absent /\ parent_id[r] = NoJob)
             ~> (status[r] = statusFailed \/ (status[r] = statusDone /\ notified[r] >= 1))

\* C4: counter conservation, child_jobs_completed + child_jobs_failed <=
\* child_jobs_count for every job in every committed state.
C4_CounterConservation ==
    \A j \in Ids : Processed(j) <= child_jobs_count[j]

\* C5: the status of a row changes only along new->queued,
\* queued->processing, queued->done, queued->failed, processing->done,
\* processing->failed; done and failed are never left.
C5_StatusTransitions ==
    [][\A j \in Ids :
          (status[j] # absent /\ status'[j] # status[j]) =>
             <<status[j], status'[j]>> \in
                {<<statusNew, statusQueued>>,
                 <<statusQueued, statusProcessing>>,
                 <<statusQueued, statusDone>>,
                 <<statusQueued, statusFailed>>,
                 <<statusProcessing, statusDone>>,
                 <<statusProcessing, statusFailed>>}]_vars

\* C6: no job whose counters meet its child budget (count > 0 and
\* completed + failed >= count) is in processing in a committed state.
C6_BudgetMetNotProcessing ==
    \A j \in Ids :
       ~ (/\ child_jobs_count[j] > 0
          /\ Processed(j) >= child_jobs_count[j]
          /\ status[j] = statusProcessing)

\* C7: a job with child_jobs_count > 0 is done only if
\* child_jobs_completed + child_jobs_failed >= child_jobs_count.
C7_DoneOnlyWhenBudgetMet ==
    \A j \in Ids :
       (child_jobs_count[j] > 0 /\ status[j] = statusDone)
          => Processed(j) >= child_jobs_count[j]

\* a parent of two children is done
C7_Witness ==
    \E j \in Ids : child_jobs_count[j] = 2 /\ status[j] = statusDone

\* C8: lease disjointness, no row is returned by two lease statements, and
\* a lease returns only rows it flips from new to queued.
C8_LeaseDisjoint ==
    /\ [](\A j \in Ids : leaseCount[j] <= 1)
    /\ [][\A j \in Ids :
             leaseCount'[j] > leaseCount[j] =>
                status[j] = statusNew /\ status'[j] = statusQueued]_vars

\* two lease statements overlap, and one process has leased before
C8_Witness ==
    /\ locked["p1"] # {}
    /\ locked["p2"] # {}
    /\ \E j \in Ids : leaseCount[j] = 1

\* C9: a row that was queued in the memory of a process when it stopped
\* stays queued ever after and is in no later lease batch.
C9_OrphanStaysQueued ==
    \A r \in orphaned : status[r] = statusQueued /\ leaseCount[r] = 1

\* C10: no silent loss, without stop and errors every row inserted as new
\* is eventually leased and delivered on the work channel, and it is new in
\* the store until it is leased.
C10_NoSilentLoss ==
    /\ \A j \in Ids :
          (status[j] = statusNew) ~> (leaseCount[j] >= 1 /\ j \in delivered)
    /\ [](\A j \in Ids :
            (status[j] # absent /\ leaseCount[j] = 0) => status[j] = statusNew)

\* a child row inserted by its parent's Process has been delivered
C10_Witness ==
    \E j \in delivered : parent_id[j] # NoJob /\ status[j] = statusQueued

\* C11: the results table holds at most one row per (link, tenant) among the
\* rows with a non-empty link and a tenant, also when the same result
\* arrives twice before any flush.
C11_ResultDedup ==
    \A e \in Entries :
       (e.Link # "" /\ (e.UserID # "" \/ e.OrganizationID # ""))
          => results[e] <= 1

\* C19 as stated: after a committed batch one revalidation goroutine is
\* started per distinct user id of the batch, and none after a failed one.
C19_OneCallPerTenant ==
    lastFlush.ctx # "none" =>
       IF lastFlush.err = "nil"
       THEN lastFlush.calls = notifyRevalidation("url", lastFlush.batch)
       ELSE lastFlush.calls = NoCalls

\* C19 amended: with a revalidation URL configured, a committed batch starts
\* exactly one goroutine per distinct non-empty user id of the batch; no
\* goroutine is started without URL or after a failed insert or commit.
C19_OneCallPerUserWhenConfigured ==
    lastFlush.ctx # "none" =>
       \A u \in UserIDs :
          lastFlush.calls[u] =
             IF /\ lastFlush.err = "nil"
                /\ revalidationAPIURL # ""
                /\ u # ""
                /\ \E i \in 1..Len(lastFlush.batch) : lastFlush.batch[i].UserID = u
             THEN 1 ELSE 0

\* a committed batch with two entries of one user and one goroutine for it
C19_Witness ==
    /\ lastFlush.err = "nil"
    /\ Len(lastFlush.batch) = 2
    /\ lastFlush.batch[1].UserID = "u1"
    /\ lastFlush.batch[2].UserID = "u1"
    /\ lastFlush.calls["u1"] = 1

\* C20: when the context is cancelled with entries in the buffer, Run makes
\* exactly one final flush of the whole buffer under a context of its own
\* and returns the cancellation error, whether the flush succeeds or not.
C20_FinalFlushOnCancel ==
    (rwpc = "returned" /\ ctxDone /\ buff # <<>>) =>
       /\ finalFlushes = 1
       /\ lastFlush.ctx = "fresh"
       /\ lastFlush.batch = buff
       /\ rwret = "ctxErr"

\* C12: envelope round trip, for every registered variant decoding the
\* marshalled encoding of a job yields a job of the same variant with equal
\* id, parent id, priority, url, url params, max retries and variant
\* metadata.
C12_EnvelopeRoundTrip ==
    (cpc = "decoded" /\ ~ccorrupt) =>
       /\ cdecoded.ok
       /\ cdecoded.job = Unwrapped(cjob)

\* a wrapped email job with a parent was decoded from its envelope
C12_Witness ==
    /\ cpc = "decoded" /\ ~ccorrupt /\ ~cdouble
    /\ cjob.type = "jobWrapper"
    /\ cdecoded.ok
    /\ cdecoded.job.type = "EmailExtractJob"
    /\ cdecoded.job.ParentID = "par"

\* C13: DecodeJob on a payload stored as a JSON string whose content is the
\* envelope returns what it returns on the envelope stored as a JSON object,
\* the same job or the same failure.
C13_DoubleEncoded ==
    (cpc = "decoded" /\ cdouble) => cdecoded = DecodeJob(ctype, cenvelope)

\* a double-encoded payload was decoded to a job, and another one failed
C13_Witness ==
    /\ cpc = "decoded" /\ cdouble
    /\ \/ cdecoded.ok /\ cdecoded.job.type = "CompanyJob"
       \/ ~cdecoded.ok /\ cdecoded.err = "entry is missing or not an object"

\* C14: Push is idempotent on the job id, a Push of a job whose row exists,
\* in whatever status, leaves the whole table as it is: no second row, and
\* status, parent_id, counters and created_at of every row unchanged.
C14_PushIdempotent ==
    [][\A c \in Ids :
          (pushedOver'[c] # pushedOver[c]) =>
             /\ status[c] # absent
             /\ UNCHANGED dbvars]_vars

\* rows were found by a Push when they were done and when they were queued
C14_Witness ==
    /\ \E c \in Ids : pushedOver[c] = statusDone
    /\ \E c \in Ids : pushedOver[c] = statusQueued

\* nothing is left to do for the jobs pushed so far
Quiescent ==
    /\ \A p \in Procs : /\ pc[p] = "idle"
                        /\ jobs[p] = <<>>
                        /\ jobc[p] = <<>>
                        /\ locked[p] = {}
                        /\ pendingPush[p] = {}
    /\ async = {}
    /\ \A j \in Ids : status[j] # statusNew

\* C15: when every job of a tree was processed once and nothing is left to
\* do, every job is done or failed, and every job with children has
\* child_jobs_completed = number of its children that are done,
\* child_jobs_failed = number that are failed, and their sum is
\* child_jobs_count.
C15_FinalCounters ==
    Quiescent =>
       \A j \in Ids :
          status[j] # absent =>
             /\ Terminal(j)
             /\ Kids(j) # {} =>
                  /\ child_jobs_completed[j] =
                        Cardinality({c \in Kids(j) : status[c] = statusDone})
                  /\ child_jobs_failed[j] =
                        Cardinality({c \in Kids(j) : status[c] = statusFailed})
                  /\ Processed(j) = child_jobs_count[j]

\* C16: when the last two children of a parent in processing commit their
\* terminal status concurrently, no counter increment is lost, the parent
\* ends done, and exactly one of the two transactions performs the
\* processing -> done transition of the parent.
C16_ConcurrentSiblings ==
    (\A t \in Txs : tx[t].pc = "committed") =>
       /\ parentRow.completed =
             before.completed + Cardinality({t \in Txs : tx[t].kind = "MarkDone"})
       /\ parentRow.failed =
             before.failed + Cardinality({t \in Txs : tx[t].kind = "MarkFailed"})
       /\ parentRow.status = statusDone
       /\ transitions = 1
       /\ Cardinality({t \in Txs : tx[t].marksDone}) = 1

\* both committed, a done and a failed child after one earlier done child;
\* the transaction of the done child made the transition
C16_Witness ==
    /\ \A t \in Txs : tx[t].pc = "committed"
    /\ tx[1].kind = "MarkDone" /\ tx[2].kind = "MarkFailed"
    /\ tx[1].marksDone
    /\ before.completed = 1

\* C17: an error that ends the lease loop reaches the error channel returned
\* by Jobs: when the context is not cancelled, the forwarder never exits
\* (on the close of p.jobc or otherwise) without having forwarded the error
\* fetchJobs sent.
C17_ErrorForwarded ==
    (fwpc = "exited" /\ sentErr # "none" /\ ~jctx) =>
       (errc = <<sentErr>> \/ errSeen = <<sentErr>>)

\* C18: however a revalidation or completion notification ends (success,
\* HTTP failure, timeout, skipped), the step that ends it changes no job row,
\* no result row and no value returned by MarkDone, MarkFailed or the batch
\* flush: nothing of the scheduler or of the writer changes.
C18_OutcomeChangesNothing ==
    [][lastOutcome' # lastOutcome => UNCHANGED <<schedvars, writervars>>]_vars

\* the completion call for a finished root timed out
C18_Witness ==
    /\ lastOutcome = [kind |-> "completion", outcome |-> "timeout"]
    /\ \E j \in Ids : notified[j] > 0 /\ status[j] = statusDone

\* C21: when the flag -c is not given, the configured concurrency is half the
\* number of CPU cores and at least 1, and ParseConfig does not reject it.
C21_DefaultConcurrency ==
    (cfgpc # "start" /\ ~argv.c.given) =>
       /\ cfg.Concurrency = (IF argv.numCPU \div 2 >= 1 THEN argv.numCPU \div 2 ELSE 1)
       /\ cfgpc # "Concurrency must be greater than 0"

\* C22: the delay of the lease loop starts at 1 s, doubles after each empty
\* poll, never exceeds 60 s and is reset to 1 s by a poll with rows: after k
\* consecutive empty polls the next delay is min(2^k s, 60 s).
C22_Backoff ==
    /\ currentDelay = (IF 2^emptyPolls < 60 THEN 2^emptyPolls ELSE 60)
    /\ currentDelay >= 1 /\ currentDelay <= 60
    /\ (fpc = "top" /\ fetched > 0 /\ emptyPolls = 0) => currentDelay = 1

\* seven empty polls in a row after a poll with rows: the cap is in force
C22_Witness ==
    /\ fetched > 0
    /\ emptyPolls = 7
    /\ currentDelay = 60
    /\ fpc = "sleep"

\* C23: a lease batch is made of the LeaseLimit lowest (priority, created_at)
\* rows that are new and not locked by a concurrent lease, and its jobs are
\* sent to the work channel in ascending (priority, created_at) order.
C23_LeaseOrder ==
    [][\A p \in Procs :
         LET Key(j) == <<Priority(variant[j]), created_at[j]>>
             Lower(a, b) == \/ Key(a)[1] < Key(b)[1]
                            \/ Key(a)[1] = Key(b)[1] /\ Key(a)[2] < Key(b)[2]
             free == {j \in Ids : /\ status[j] = statusNew
                                  /\ \A q \in Procs \ {p} : j \notin locked[q]}
         IN
         /\ (locked[p] = {} /\ locked'[p] # {}) =>
                /\ locked'[p] \subseteq free
                /\ Cardinality(locked'[p]) =
                      (IF Cardinality(free) < LeaseLimit THEN Cardinality(free)
                       ELSE LeaseLimit)
                /\ \A b \in locked'[p], c \in free \ locked'[p] : Lower(b, c)
         /\ (locked[p] # {} /\ locked'[p] = {} /\ jobs'[p] # <<>>) =>
                /\ {jobs'[p][i] : i \in 1..Len(jobs'[p])} = locked[p]
                /\ \A i, k \in 1..Len(jobs'[p]) :
                      i < k => Lower(jobs'[p][i], jobs'[p][k])
         /\ Len(jobc'[p]) > Len(jobc[p]) =>
                /\ jobc'[p] = Append(jobc[p], Head(jobs[p]))
                /\ \A i \in 2..Len(jobs[p]) : Lower(Head(jobs[p]), jobs[p][i])
    ]_vars

\* a batch of two whose order by priority is not the order of creation
C23_Witness ==
    \E p \in Procs :
       /\ Len(jobs[p]) = 2
       /\ created_at[jobs[p][1]] > created_at[jobs[p][2]]
       /\ Priority(variant[jobs[p][1]]) < Priority(variant[jobs[p][2]])

\* C24: when the business Process returns an error the wrapper calls
\* MarkFailed; once its transaction has committed the job is failed, the
\* child_jobs_failed of its parent is one higher, the child_jobs_completed of
\* its parent is as before, and no child row was inserted nor any child push
\* started for the job. When the transaction fails no row has changed.
C24_ErrorMarksFailed ==
    [][\A p \in Procs :
         LET j == cur[p]
             par == parent_id[j]
         IN
         /\ ProcessError(p, TRUE) =>
               /\ status'[j] = statusFailed
               /\ par # NoJob =>
                     /\ child_jobs_failed'[par] = child_jobs_failed[par] + 1
                     /\ child_jobs_completed'[par] = child_jobs_completed[par]
               /\ \A c \in Ids : status[c] = absent => status'[c] = absent
               /\ \A c \in Ids : parent_id'[c] = parent_id[c]
               /\ async' = async /\ pendingPush' = pendingPush
         /\ ProcessError(p, FALSE) => UNCHANGED dbvars
    ]_vars

\* a child whose Process returned an error: it is failed and counted once as
\* failed by its parent
C24_Witness ==
    \E j \in Ids :
       /\ status[j] = statusFailed
       /\ parent_id[j] # NoJob
       /\ child_jobs_failed[parent_id[j]] = 1
       /\ child_jobs_completed[parent_id[j]] = 0
       /\ \A c \in Ids : status[c] # absent => parent_id[c] # j

\* C25: the fan-out is transactional with the flip of the parent to
\* processing: in every committed state a job that has child rows is no
\* longer queued.
C25_FanoutWithFlip ==
    \A c \in Ids :
       (status[c] # absent /\ parent_id[c] # NoJob)
          => status[parent_id[c]] # statusQueued

\* C26: in every committed state without a pending asynchronous child push,
\* child_jobs_count of each job is the number of rows whose parent_id is
\* that job.
C26_CountIsRows ==
    async = {} =>
       \A j \in Ids :
          status[j] # absent => child_jobs_count[j] = Cardinality(Kids(j))

\* C27: the children that one Process call of a CompanyJob or a PlaceJob
\* returned are inserted in one transaction: in every committed state all of
\* them have a row or none has.
C27_AsyncChildrenAtomic ==
    \A j \in Ids :
       variant[j] \in {"company", "place"} =>
          LET ks == {c \in Ids : variant[c] # "none" /\ ParentID[c] = j} IN
          \/ \A c \in ks : status[c] # absent
          \/ \A c \in ks : status[c] = absent

\* the two children of a company job have been inserted by its goroutine
C27_Witness ==
    \E j \in Ids :
       /\ variant[j] = "company"
       /\ Cardinality({c \in Ids : variant[c] # "none" /\ ParentID[c] = j}) = 2
       /\ \A c \in Ids : (variant[c] # "none" /\ ParentID[c] = j) => status[c] # absent
       /\ \A t \in async : t.parent # j


\* C28: for the variants whose children are pushed by a goroutine (CompanyJob,
\* PlaceJob), the MarkDone of the parent has committed when the goroutine's
\* transaction commits: at that step the parent is no longer queued, in
\* every interleaving.
C28_MarkDoneBeforeAsyncCommit ==
    [][\A t \in async : AsyncPush(t) => status[t.parent] # statusQueued]_vars


\* C29: a batch of results is written all or nothing: the rows of the
\* table change only in a step whose flush returned no error, and then by
\* exactly the entries of that batch; a flush that returns an error (a
\* failed insert or commit, a cancelled context) leaves every row as it was.
C29_BatchAllOrNothing ==
    [][/\ results' # results =>
            /\ lastFlush'.err = "nil"
            /\ \A e \in Entries :
                  results'[e] = results[e] + CountIn(lastFlush'.batch, e)
       /\ (lastFlush' # lastFlush /\ lastFlush'.err # "nil") => results' = results]_vars

C29_Witness ==
    /\ lastFlush.err = "saveErr"
    /\ Len(lastFlush.batch) = MaxBatchSize
    /\ \A e \in Entries : results[e] = 0


\* the ids reached from jobID along parent_id links, in at most n hops
RECURSIVE Lineage(_, _, _)
Lineage(g, jobID, n) ==
    IF n = 0 \/ g[jobID] \in {NoRow, NoJob} THEN {jobID}
    ELSE {jobID} \cup Lineage(g, g[jobID], n - 1)

\* C30: getRootParentJobID terminates for every parent_id graph: it returns
\* the id of the first job of the lineage that has no parent, or it aborts
\* with the circular-reference error, which happens only when the lineage
\* has no such job and before any id is marked twice (or it returns the
\* error of a failed query); it never loops forever.
C30_RootTerminates ==
    /\ <>(rootret.err # "running")
    /\ [](LET line == Lineage(rparent, rjobID, MaxNodes) IN
          /\ visitedJobs \subseteq line
          /\ rootret.err = "nil" =>
                /\ rootret.id \in line
                /\ rparent[rootret.id] \in {NoRow, NoJob}
          /\ rootret.err = "circular" =>
                /\ \A j \in line : rparent[j] \in RootIds
                /\ visitedJobs = line
                /\ currentJobID \in visitedJobs)

C30_Witness ==
    /\ rootret.err = "circular"
    /\ Cardinality(visitedJobs) = MaxNodes
    /\ currentJobID # rjobID


\* the jobs of the lineage of jobID that have no parent (at most one)
RootsOf(g, jobID) ==
    {j \in Lineage(g, jobID, MaxNodes) : g[j] \notin RootIds}

\* C31: the row built for a result carries the tenant of the job that
\* produced it and, as parent_id, the root of that job's lineage, whatever
\* the type of the job and whether or not it arrives wrapped.
C31_RowOfResult ==
    resEntry.built =>
       /\ resEntry.UserID = resJob.OwnerID
       /\ resEntry.OrganizationID = resJob.OrganizationID
       /\ \A r \in RootsOf(rparent, resJob.ID) : resEntry.ParentID = r


\* the rows whose job the call c delivered on its work channel
DeliveredBy(c) == {r \in Rows : \E i \in 1..Len(fw[c].outc) : fw[c].outc[i].IJob = r}
\* the rows whose job is on p.jobc, held by a forwarder or delivered
Placed ==
    {jobcQ[i] : i \in 1..Len(jobcQ)}
       \cup {fw[c].job.IJob : c \in {d \in Callers : fw[d].job # NoWrapped}}
       \cup UNION {DeliveredBy(c) : c \in Callers}
DecodeFailed == lerr = "DecodeJob"

\* C32: when the payload of a leased row fails to decode, the row stays in
\* queued and the lease loop goes on: it does not send the failure as an
\* error that ends the loop.
C32_DecodeFailureOnlyLogged ==
    DecodeFailed =>
       /\ \A r \in batch \cap poisoned : rowsTbl[r] = statusQueued
       /\ lpc \notin {"return", "errc closed", "done"}
       /\ \A i \in 1..Len(errcQ) : errcQ[i] # "DecodeJob"

\* C38: when the decoding of a row of a lease batch fails, the error is on
\* p.errc (or was taken from it by a forwarder), the loop has left its for
\* loop, no job of the batch is placed on p.jobc although every row of the
\* batch is queued, no further lease statement is issued, and both channels
\* get closed.
C38_DecodeFailureEndsLoop ==
    /\ [](DecodeFailed =>
            /\ \/ \E i \in 1..Len(errcQ) : errcQ[i] = "DecodeJob"
               \/ \E c \in Callers : \E i \in 1..Len(fw[c].errc) :
                     fw[c].errc[i] = "DecodeJob"
            /\ lpc \in {"return", "errc closed", "done"}
            /\ batch # {}
            /\ \A r \in batch : rowsTbl[r] = statusQueued /\ r \notin Placed)
    /\ [][DecodeFailed => leases' = leases /\ rowsTbl' = rowsTbl]_vars
    /\ (DecodeFailed ~> (errcClosedQ /\ jobcClosedQ))

\* a batch of LeaseLimit rows whose first row decoded and whose second did
\* not: the loop has ended, both channels are closed
C38_Witness ==
    /\ DecodeFailed
    /\ Cardinality(batch) = LeaseLimit
    /\ jobsSlice # <<>>
    /\ lpc = "done"
    /\ errcClosedQ /\ jobcClosedQ

\* C35 as stated: the lease loop is started at most once, every job
\* delivered is wrapped and was placed on p.jobc, no job is delivered twice
\* or on two work channels, and every job placed on p.jobc is delivered.
C35_DeliveredExactlyOnce ==
    /\ [](/\ fetchers <= 1
          /\ \A c \in Callers : \A i \in 1..Len(fw[c].outc) :
                /\ fw[c].outc[i].type = "jobWrapper"
                /\ \A k \in 1..Len(fw[c].outc) : fw[c].outc[k] = fw[c].outc[i] => k = i
          /\ \A c, d \in Callers : c # d => DeliveredBy(c) \cap DeliveredBy(d) = {})
    /\ \A r \in Rows :
          (\E i \in 1..Len(jobcQ) : jobcQ[i] = r)
             ~> (\E c \in Callers : r \in DeliveredBy(c))

\* C35, amended: the same, where a job placed on p.jobc is delivered unless
\* the context is cancelled or the lease loop has sent an error.
C35_DeliveredOnceUnlessStopped ==
    /\ [](/\ fetchers <= 1
          /\ (started => fetchers = 1)
          /\ \A c \in Callers : \A i \in 1..Len(fw[c].outc) :
                /\ fw[c].outc[i].type = "jobWrapper"
                /\ rowsTbl[fw[c].outc[i].IJob] = statusQueued
                /\ \A k \in 1..Len(fw[c].outc) : fw[c].outc[k] = fw[c].outc[i] => k = i
          /\ \A c, d \in Callers : c # d => DeliveredBy(c) \cap DeliveredBy(d) = {})
    /\ \A r \in Rows :
          (\E i \in 1..Len(jobcQ) : jobcQ[i] = r)
             ~> (pctx \/ lerr # "none" \/ \E c \in Callers : r \in DeliveredBy(c))

\* Jobs was called twice, one lease loop runs, and each call delivered a job
C35_Witness ==
    /\ fetchers = 1
    /\ \A c \in Callers : fw[c].outc # <<>>
    /\ ~pctx /\ lerr = "none"


\* C33: a MarkDone or MarkFailed whose transaction fails (a statement or the
\* commit) leaves every row as it was: the status of the job, the status and
\* the counters of every other row; the call returns its error, so the
\* wrapper hands no next job to the framework.
C33_StatusUpdateAtomic ==
    [][\A p \in Procs :
         (ProcessLeaf(p, FALSE) \/ ProcessMarkDone(p, FALSE) \/ ProcessError(p, FALSE)) =>
            /\ status' = status
            /\ child_jobs_count' = child_jobs_count
            /\ child_jobs_completed' = child_jobs_completed
            /\ child_jobs_failed' = child_jobs_failed
            /\ parent_id' = parent_id
            /\ pendingPush' = pendingPush]_vars

\* a delivered child that no process holds or lost is still queued and its
\* parent's counters show no processed child: its status update failed
C33_Witness ==
    \E j \in Ids :
       /\ j \in delivered /\ j \notin orphaned
       /\ status[j] = statusQueued
       /\ \A p \in Procs : cur[p] # j
       /\ parent_id[j] # NoJob
       /\ Processed(parent_id[j]) = 0
       /\ crashes = 0


\* the row of j and the rows on the parent_id path from j to its root
PathOf(j) == {j} \cup Ancestors(parent_id, j, MaxJobs + SpareIds)
RowSame(i) ==
    /\ status'[i] = status[i]
    /\ child_jobs_count'[i] = child_jobs_count[i]
    /\ child_jobs_completed'[i] = child_jobs_completed[i]
    /\ child_jobs_failed'[i] = child_jobs_failed[i]

\* C36: MarkDone(j, n) and MarkFailed(j) change only the row of j and rows on
\* the path from j to its root: siblings, descendants and other trees keep
\* their status and counters, no row is created and no parent_id changes;
\* with n > 0 MarkDone changes the status of j and nothing else, and starts
\* no notification.
C36_StatusUpdateFrame ==
    [][\A p \in Procs : \A ok \in BOOLEAN :
         LET j == cur[p] IN
         /\ (ProcessLeaf(p, ok) \/ ProcessError(p, ok) \/ ProcessMarkDone(p, ok)) =>
               /\ \A i \in Ids \ PathOf(j) : RowSame(i)
               /\ parent_id' = parent_id
               /\ created_at' = created_at
         /\ ProcessMarkDone(p, ok) =>
               /\ \A i \in Ids \ {j} : RowSame(i)
               /\ child_jobs_count' = child_jobs_count
               /\ child_jobs_completed' = child_jobs_completed
               /\ child_jobs_failed' = child_jobs_failed
               /\ notified' = notified]_vars

\* a job is done beside a sibling that is still queued, and a job with children
\* is in processing with its counter written by the fan-out only
C36_Witness ==
    /\ \E j, k \in Ids :
          /\ j # k /\ parent_id[j] # NoJob /\ parent_id[j] = parent_id[k]
          /\ status[j] = statusDone /\ status[k] = statusQueued
          /\ status[parent_id[j]] = statusProcessing
          /\ child_jobs_completed[parent_id[j]] = 1


\* C34: child_jobs_completed of a parent changes only by + 1 in a step in
\* which one of its children becomes done; no row becomes done twice, so a
\* (child, parent) pair is counted at most once, and the counter never
\* exceeds the number of the parent's children that reached done.
C34_CompletedOncePerChild ==
    /\ [](\A j \in Ids :
            /\ becameDone[j] <= 1
            /\ child_jobs_completed[j] <=
                  Cardinality({c \in Kids(j) : becameDone[c] >= 1}))
    /\ [][\A j \in Ids :
            child_jobs_completed'[j] # child_jobs_completed[j] =>
               /\ child_jobs_completed'[j] = child_jobs_completed[j] + 1
               /\ \E c \in Ids : /\ parent_id[c] = j
                                 /\ status[c] # statusDone /\ status'[c] = statusDone
                                 /\ becameDone'[c] = 1]_vars

\* both children of a parent are done and counted
C34_Witness ==
    \E j \in Ids :
       /\ child_jobs_completed[j] = 2
       /\ Cardinality({c \in Kids(j) : status[c] = statusDone}) = 2
       /\ status[j] = statusDone


\* C37: when the insert of pushJobWithParent meets a row with the same id,
\* that row keeps its status, parent_id, created_at and counters, the given
\* parent's child_jobs_failed grows by exactly 1 for it in the same
\* transaction, and no rollup runs: the parent keeps its status and its
\* other counters, no other row changes and no notification is started.
C37_ConflictCountsFailed ==
    [][\A t \in async :
         LET conf == {k \in t.kids : status[k] # absent} IN
         (AsyncPush(t) /\ conf # {}) =>
            /\ \A k \in conf : RowSame(k) /\ parent_id'[k] = parent_id[k]
                                         /\ created_at'[k] = created_at[k]
            /\ child_jobs_failed'[t.parent] =
                  child_jobs_failed[t.parent] + Cardinality(conf)
            /\ status'[t.parent] = status[t.parent]
            /\ child_jobs_completed'[t.parent] = child_jobs_completed[t.parent]
            /\ \A i \in Ids \ (t.kids \cup {t.parent}) : RowSame(i)
            /\ notified' = notified]_vars

\* the failed counter of a place job is 1 although its only child, pushed by
\* the framework first, has not failed
C37_Witness ==
    \E j \in Ids :
       /\ variant[j] = "place"
       /\ child_jobs_failed[j] = 1
       /\ Kids(j) # {}
       /\ \A c \in Kids(j) : status[c] # statusFailed /\ pushedOver[c] = "none"
       /\ \A t \in async : t.parent # j


\* C39: when the push of the children fails, or MarkDone fails, after the
\* business Process succeeded, the wrapper returns without MarkFailed: the
\* job keeps its status, no counter and no status of any row changes, no
\* row is inserted, no goroutine is started and no next job is handed to
\* the framework. (A completion call started inside the failed MarkDone is
\* no row and is not undone.)
C39_ErrorAfterProcess ==
    [][\A p \in Procs :
         LET j == cur[p] IN
         (\/ \E k \in 1..MaxKids, kv \in Variants :
                FanoutError(p, k, kv, MaxJobs + SpareIds)
          \/ ProcessMarkDone(p, FALSE)
          \/ ProcessLeaf(p, FALSE)) =>
            /\ status'[j] = status[j]
            /\ status'[j] # statusFailed
            /\ \A i \in Ids : RowSame(i)
            /\ parent_id' = parent_id
            /\ async' = async
            /\ pendingPush' = pendingPush]_vars

\* a search job whose Process returned two children is still queued, no
\* process holds it and none of the children has a row
C39_Witness ==
    \E j \in Ids :
       /\ variant[j] = "search"
       /\ status[j] = statusQueued
       /\ j \in delivered
       /\ \A p \in Procs : cur[p] # j
       /\ Cardinality({c \in Ids : variant[c] # "none" /\ ParentID[c] = j}) = 2
       /\ \A c \in Ids : ParentID[c] = j => status[c] = absent
       /\ child_jobs_count[j] = 0


\* C40: when Run has returned, whatever the exit path, the entries in its
\* buffer were handed to batchSave: the last call of batchSave was made
\* with the whole buffer.
C40_BufferFlushedBeforeReturn ==
    (rwpc = "returned" /\ buff # <<>>) =>
       /\ lastFlush.ctx # "none"
       /\ lastFlush.batch = buff

====
